---- MODULE Spec2Model ----
(***************************************************************************)
(* A model of job-radar's normalisation / classification / deduplication   *)
(* / ranking pipeline (src/job_radar.py, src/radar/core, src/radar/filters,*)
(* src/radar/db/crud.py).                                                  *)
(*                                                                         *)
(* Texts are TLC strings; Python's str operations and the `re` patterns of *)
(* the source are evaluated character by character on them.  Timestamps    *)
(* are integers (hours since 1970-01-01T00:00 UTC, naive).                 *)
(***************************************************************************)
EXTENDS Integers, Sequences, FiniteSets, TLC

None == "<None>"      \* Python's None (never a member of a text alphabet)

(***************************************************************************)
(* Python str helpers.                                                     *)
(***************************************************************************)
UpperChars == "ABCDEFGHIJKLMNOPQRSTUVWXYZ"
LowerChars == "abcdefghijklmnopqrstuvwxyz"
DigitChars == "0123456789"
WordChars  == LowerChars \o UpperChars \o DigitChars \o "_"
SpaceChars == " "

Ch(s, i) == SubSeq(s, i, i)

InStr(c, chars) == \E k \in 1..Len(chars) : Ch(chars, k) = c

\* the alphabets as sets of one-character strings
CharSet(chars) == {Ch(chars, k) : k \in 1..Len(chars)}
UpperSet == CharSet(UpperChars)
DigitSet == CharSet(DigitChars)
WordSet  == CharSet(WordChars)
SpaceSet == CharSet(SpaceChars)
LowerOf  == [c \in UpperSet |->
                Ch(LowerChars, CHOOSE k \in 1..Len(UpperChars) : Ch(UpperChars, k) = c)]

\* str.lower() on one character
LowerCh(c) == IF c \in UpperSet THEN LowerOf[c] ELSE c

RECURSIVE lower(_)
lower(s) == IF s = "" THEN "" ELSE LowerCh(Ch(s, 1)) \o lower(SubSeq(s, 2, Len(s)))

\* `pat in text`
Contains(text, pat) ==
    \E i \in 1..(Len(text) - Len(pat) + 1) : SubSeq(text, i, i + Len(pat) - 1) = pat

\* any(p in text for p in phrases)
ContainsAny(text, phrases) == \E p \in phrases : Contains(text, p)

RECURSIVE lstrip(_)
lstrip(s) == IF s # "" /\ Ch(s, 1) \in SpaceSet THEN lstrip(SubSeq(s, 2, Len(s))) ELSE s
RECURSIVE rstrip(_)
rstrip(s) == IF s # "" /\ Ch(s, Len(s)) \in SpaceSet THEN rstrip(SubSeq(s, 1, Len(s) - 1)) ELSE s
\* str.strip()
strip(s) == rstrip(lstrip(s))

\* `(x or "")` for an optional text
OrEmpty(x) == IF x = None THEN "" ELSE x
\* truthiness of an optional text
Truthy(x) == x # None /\ x # ""

(***************************************************************************)
(* Python datetime (naive UTC): the number of hours since                  *)
(* 1970-01-01T00:00.  An optional datetime is <<>> (None) or <<t>>.        *)
(***************************************************************************)
NoDate == <<>>
At(t) == <<t>>

\* days from 1970-01-01 to the civil date y-m-d (proleptic Gregorian calendar)
DaysFromCivil(y, m, d) ==
    LET yy  == IF m <= 2 THEN y - 1 ELSE y
        era == yy \div 400
        yoe == yy - era * 400
        mp  == IF m > 2 THEN m - 3 ELSE m + 9
        doy == (153 * mp + 2) \div 5 + d - 1
        doe == yoe * 365 + yoe \div 4 - yoe \div 100 + doy
    IN  era * 146097 + doe - 719468

\* datetime(y, m, d, h)
DateTime(y, m, d, h) == DaysFromCivil(y, m, d) * 24 + h

(***************************************************************************)
(* Python `re`: a pattern is a tree                                        *)
(*   <<"lit", s>>  the characters s      <<"set", cs>>  one character of cs*)
(*   <<"alt", <<r1, ..>>>>  r1|..        <<"seq", <<r1, ..>>>>  r1 ..      *)
(*   <<"opt", r>>  r?    <<"star", r>>  r*    <<"b">>  \b    <<"dot">>  .  *)
(* Ends(r, s, i) is the set of positions j such that r matches s[i..j-1].  *)
(* re.search(r, s) succeeds iff some start position has an end.  Patterns  *)
(* compiled with re.I are written in lower case and applied to lower(s).   *)
(***************************************************************************)
IsWordCh(s, i) == i >= 1 /\ i <= Len(s) /\ Ch(s, i) \in WordSet

RECURSIVE Ends(_, _, _)
RECURSIVE SeqEnds(_, _, _, _)
RECURSIVE StarEnds(_, _, _)

Ends(r, s, i) ==
    CASE r[1] = "lit" ->
           IF i + Len(r[2]) - 1 <= Len(s) /\ SubSeq(s, i, i + Len(r[2]) - 1) = r[2]
           THEN {i + Len(r[2])} ELSE {}
      [] r[1] = "set" ->
           IF i <= Len(s) /\ InStr(Ch(s, i), r[2]) THEN {i + 1} ELSE {}
      [] r[1] = "dot" ->
           IF i <= Len(s) THEN {i + 1} ELSE {}
      [] r[1] = "alt" -> UNION {Ends(r[2][k], s, i) : k \in 1..Len(r[2])}
      [] r[1] = "seq" -> SeqEnds(r[2], 1, s, {i})
      [] r[1] = "opt" -> {i} \cup Ends(r[2], s, i)
      [] r[1] = "star" -> StarEnds(r[2], s, {i})
      [] r[1] = "b" ->
           IF IsWordCh(s, i - 1) # IsWordCh(s, i) THEN {i} ELSE {}

SeqEnds(rs, k, s, from) ==
    IF k > Len(rs) \/ from = {} THEN from
    ELSE SeqEnds(rs, k + 1, s, UNION {Ends(rs[k], s, i) : i \in from})

StarEnds(r, s, from) ==
    LET more == from \cup UNION {Ends(r, s, i) : i \in from}
    IN  IF more = from THEN from ELSE StarEnds(r, s, more)

\* re.search(r, s) is not None
Search(r, s) == \E i \in 1..(Len(s) + 1) : Ends(r, s, i) # {}

Lit(x)  == <<"lit", x>>
Set(cs) == <<"set", cs>>
Alt(rs) == <<"alt", rs>>
Cat(rs) == <<"seq", rs>>
Opt(r)  == <<"opt", r>>
Star(r) == <<"star", r>>
Bnd     == <<"b">>
Dot     == <<"dot">>
Ws      == Set(SpaceChars)          \* \s
Ws0     == Star(Ws)                 \* \s*
Ws1     == Cat(<<Ws, Star(Ws)>>)    \* \s+
Dig     == Set(DigitChars)          \* \d
\* \b( r )\b
Word(r) == Cat(<<Bnd, r, Bnd>>)

(***************************************************************************)
(* radar/filters/rules.py: the compiled patterns.  Model texts are ASCII,  *)
(* so the alternatives of the source that need an en dash or a "<=" sign   *)
(* written as one character can never match and are left out.              *)
(***************************************************************************)
Years == Alt(<<Lit("years"), Lit("year"), Lit("yrs"), Lit("yr")>>)   \* (?:years?|yrs?)
OfExp == Alt(<<Cat(<<Lit("of"), Ws0, Lit("experience")>>), Lit("exp"), Lit("yoe")>>)

CORE_SWE_HINTS ==
    Word(Alt(<<Lit("software"),
               Cat(<<Lit("full"), Opt(Set("- ")), Lit("stack")>>), Lit("fullstack"),
               Cat(<<Lit("front"), Opt(Set("- ")), Lit("end")>>), Lit("frontend"),
               Cat(<<Lit("back"), Opt(Set("- ")), Lit("end")>>), Lit("backend"),
               Lit("platform"), Lit("web"), Lit("mobile"), Lit("ios"), Lit("android"),
               Lit("data"), Lit("ml"), Cat(<<Lit("machine"), Ws0, Lit("learning")>>),
               Lit("devops"), Lit("swe"), Lit("sre"),
               Cat(<<Lit("site"), Ws0, Lit("reliability")>>),
               Lit("security"), Lit("infrastructure")>>))

GENERIC_ENGINEER == Word(Alt(<<Lit("engineer"), Lit("developer")>>))

NON_SWE_ENGINEER ==
    Cat(<<Bnd,
          Alt(<<Lit("sales"), Lit("account"), Lit("customer"), Lit("support"),
                Lit("success"), Lit("implementation"), Lit("solutions"), Lit("field"),
                Cat(<<Lit("pre"), Opt(Set("- ")), Lit("sales")>>),
                Cat(<<Lit("professional"), Ws0, Lit("services")>>),
                Lit("broadcast"), Lit("audio"), Lit("video"),
                Cat(<<Lit("a"), Opt(Lit("/")), Lit("v")>>), Lit("av")>>),
          Ws1,
          Alt(<<Lit("engineer"), Lit("engineering")>>),
          Bnd>>)

SENIOR_BLOCK ==
    Word(Alt(<<Lit("senior"), Lit("staff"), Lit("principal"), Lit("lead"),
               Lit("manager"), Lit("architect"),
               Cat(<<Lit("s"), Opt(Lit(".")), Lit("r"), Opt(Lit("."))>>)>>))

RoleWord ==
    Alt(<<Lit("software"), Lit("swe"), Lit("sde"), Lit("se"), Lit("developer"),
          Lit("engineer")>>)

JUNIOR_TITLE ==
    Word(Alt(<<Lit("junior"),
               Cat(<<Lit("new"), Ws0, Lit("grad")>>),
               Cat(<<Lit("entry"), Star(Set("- ")), Lit("level")>>),
               Lit("associate"),
               Cat(<<RoleWord, Ws0, Alt(<<Lit("i"), Lit("1"), Lit("i.")>>)>>)>>))

ENGINEER_L2 == Word(Cat(<<RoleWord, Ws0, Alt(<<Lit("ii"), Lit("2")>>)>>))

LEVEL_3 == Word(Alt(<<Lit("iii"), Lit("3")>>))      \* r"\b(iii|3)\b"

YEARS_0_TO_3 ==
    Alt(<<
        Cat(<<Bnd, Set("0123"),
              Opt(Cat(<<Ws0, Lit("-"), Ws0, Set("123")>>)),
              Ws0, Years, Ws0, Opt(OfExp), Bnd>>),
        Cat(<<Bnd, Set("0123"), Ws0, Lit("+"), Ws0, Years, Bnd>>),
        Cat(<<Bnd, Alt(<<Cat(<<Lit("up"), Ws0, Lit("to")>>), Lit("<=")>>),
              Ws0, Lit("3"), Ws0, Years, Bnd>>),
        Cat(<<Bnd, Alt(<<Lit("zero"), Lit("one"), Lit("two"), Lit("three")>>),
              Opt(Cat(<<Ws0, Alt(<<Lit("to"), Lit("-")>>), Ws0,
                        Alt(<<Lit("one"), Lit("two"), Lit("three")>>)>>)),
              Ws0, Years, Bnd>>)
    >>)

DESC_4PLUS_YEARS ==
    Word(Alt(<<
        Cat(<<Alt(<<Set("456789"), Cat(<<Lit("1"), Dig>>)>>),
              Ws0, Opt(Alt(<<Lit("+"), Lit("plus")>>)), Ws0, Years, Ws0, Opt(OfExp)>>),
        Cat(<<Opt(Alt(<<Cat(<<Lit("at"), Ws0, Lit("least")>>),
                        Cat(<<Lit("min"), Opt(Lit("imum")), Ws0, Lit("of")>>),
                        Cat(<<Lit("min"), Opt(Lit(".")), Ws0>>)>>)),
              Alt(<<Lit("4"), Lit("four")>>), Ws0, Years>>),
        Cat(<<Alt(<<Lit("4"), Lit("four")>>), Ws0, Lit("-"), Ws0,
              Alt(<<Lit("5"), Lit("six"), Lit("6"), Lit("7"), Lit("seven"), Lit("8"),
                    Lit("eight"), Lit("9"), Lit("nine"), Cat(<<Lit("1"), Dig>>)>>),
              Ws0, Years>>)
    >>))

DESC_SENIOR_WORDS ==
    Word(Alt(<<Lit("senior"), Lit("staff"), Lit("principal"), Lit("lead"),
               Lit("architect"), Lit("manager")>>))

JUNIOR_DESC_POSITIVES == {
    "junior", "new grad", "new college grad", "recent grad", "recent graduate",
    "recent college graduate", "fresh graduate", "entry level", "entry-level",
    "early career", "early in career", "college hire", "university graduate",
    "graduate role", "graduate program", "grad program", "apprentice",
    "apprenticeship", "apprenticeship programme", "intern to full-time",
    "engineer i", "developer i", "software engineer i", "level 1", "ic-1", "ic1", "l1",
    "0-1 years", "0 to 1 years", "0-2 years", "0 to 2 years",
    "1-2 years", "1 to 2 years", "1-3 years", "1 to 3 years",
    "0-2 years preferred", "0 to 2 years preferred",
    "0-3 years preferred", "0 to 3 years preferred",
    "up to 2 years", "up to 3 years", "under 3 years", "less than 3 years",
    "preferred 0-2 years",
    "early talent", "early talent program", "campus hire", "new college graduate",
    "graduate scheme", "rotation program", "rotational program",
    "entry role", "engineer 1", "developer 1", "software engineer 1" }

\* pattern.search(text) for a pattern compiled with re.I
SearchI(r, text) == Search(r, lower(text))

(***************************************************************************)
(* radar/filters/rules.py: the classifiers.                                *)
(***************************************************************************)
looks_like_engineering(title) ==
    LET t == strip(OrEmpty(title)) IN
    IF t = "" THEN FALSE
    ELSE IF SearchI(NON_SWE_ENGINEER, t) /\ ~SearchI(CORE_SWE_HINTS, t) THEN FALSE
    ELSE IF SearchI(CORE_SWE_HINTS, t) THEN TRUE
    ELSE IF SearchI(GENERIC_ENGINEER, t) THEN TRUE
    ELSE FALSE

\* lines 167-186: the description checks of relaxed mode, on text = description.lower()
JuniorByDescription(text) ==
    IF Search(DESC_4PLUS_YEARS, text) THEN FALSE
    ELSE IF Search(DESC_SENIOR_WORDS, text) /\ ~ContainsAny(text, JUNIOR_DESC_POSITIVES)
         THEN FALSE
    ELSE IF ContainsAny(text, JUNIOR_DESC_POSITIVES) THEN TRUE
    ELSE IF Search(YEARS_0_TO_3, text) THEN TRUE
    ELSE FALSE

\* lines 142-151: a level II/2 title blocks unless relaxed and the description
\* carries an explicit junior signal
BlockedByLevel2(t, description_html, relaxed) ==
    SearchI(ENGINEER_L2, t) /\
        IF ~(relaxed /\ Truthy(description_html)) THEN TRUE
        ELSE LET text == lower(description_html) IN
             ~(Search(YEARS_0_TO_3, text) \/ ContainsAny(text, JUNIOR_DESC_POSITIVES))

\* lines 153-156: a level III/3 title blocks unless relaxed and the description
\* has a 0-3 years phrase
BlockedByLevel3(t, description_html, relaxed) ==
    SearchI(LEVEL_3, t) /\
        ~(relaxed /\ Truthy(description_html)
                  /\ Search(YEARS_0_TO_3, lower(description_html)))

\* (mutation: relaxed mode skips the senior-title block when a description is given)
is_junior_title_or_desc_RelaxedSkipsSenior(title, description_html, relaxed) ==
    LET t == OrEmpty(title) IN
    IF SearchI(SENIOR_BLOCK, t) /\ ~(relaxed /\ Truthy(description_html)) THEN FALSE
    ELSE IF BlockedByLevel2(t, description_html, relaxed) THEN FALSE
    ELSE IF BlockedByLevel3(t, description_html, relaxed) THEN FALSE
    ELSE IF SearchI(JUNIOR_TITLE, t) \/ SearchI(YEARS_0_TO_3, t) THEN TRUE
    ELSE IF ~relaxed \/ ~Truthy(description_html) THEN FALSE
    ELSE JuniorByDescription(lower(description_html))

\* (mutation: relaxed mode applies the 4+ years guard before the title hints)
is_junior_title_or_desc_GuardFirst(title, description_html, relaxed) ==
    LET t == OrEmpty(title) IN
    IF SearchI(SENIOR_BLOCK, t) THEN FALSE
    ELSE IF BlockedByLevel2(t, description_html, relaxed) THEN FALSE
    ELSE IF BlockedByLevel3(t, description_html, relaxed) THEN FALSE
    ELSE IF relaxed /\ Truthy(description_html)
                    /\ Search(DESC_4PLUS_YEARS, lower(description_html)) THEN FALSE
    ELSE IF SearchI(JUNIOR_TITLE, t) \/ SearchI(YEARS_0_TO_3, t) THEN TRUE
    ELSE IF ~relaxed \/ ~Truthy(description_html) THEN FALSE
    ELSE JuniorByDescription(lower(description_html))

is_junior_title_or_desc(title, description_html, relaxed) ==
    LET t == OrEmpty(title) IN
    IF SearchI(SENIOR_BLOCK, t) THEN FALSE
    ELSE IF BlockedByLevel2(t, description_html, relaxed) THEN FALSE
    ELSE IF BlockedByLevel3(t, description_html, relaxed) THEN FALSE
    ELSE IF SearchI(JUNIOR_TITLE, t) \/ SearchI(YEARS_0_TO_3, t) THEN TRUE
    ELSE IF ~relaxed \/ ~Truthy(description_html) THEN FALSE
    ELSE JuniorByDescription(lower(description_html))

\* looks_remote_us: _usish
usish(txt) ==
    ContainsAny(lower(txt), {"united states", "u.s.", "usa", "u.s.a", "us only",
                             "remote - us", "remote (us)", "us-remote", "remote/us"})

NON_US_MARKERS == {
    "canada", "canadian", "toronto", "vancouver", "montreal",
    "united kingdom", "uk", "europe", "eu", "emea", "apac", "australia",
    "new zealand", "nz", "mexico", "latam", "brazil", "argentina", "colombia",
    "chile", "peru", "india", "singapore", "philippines",
    "africa", "south africa", "nigeria", "mena", "uae", "dubai", "middle east",
    "germany", "france", "spain", "italy", "portugal", "netherlands", "belgium",
    "sweden", "norway", "denmark", "finland", "ireland", "poland", "romania" }

\* looks_remote_us: _has_non_us_remote
has_non_us_remote(txt) ==
    LET t == lower(txt) IN
    Contains(t, "remote") /\ ContainsAny(t, NON_US_MARKERS) /\ ~usish(t)

looks_remote_us(location, description_html) ==
    LET loc  == lower(OrEmpty(location))
        text == lower(OrEmpty(description_html))
    IN
    IF Truthy(location) /\ has_non_us_remote(loc) THEN FALSE
    ELSE IF Truthy(location) /\ Contains(loc, "remote") /\ usish(loc) THEN TRUE
    ELSE IF Truthy(description_html) /\ has_non_us_remote(text) THEN FALSE
    ELSE IF Truthy(description_html) /\ Contains(text, "remote") /\ usish(text) THEN TRUE
    ELSE FALSE

\* is_recent(posted_at, days) at the time `now`
is_recent(posted_at, days, now) ==
    IF posted_at = NoDate THEN FALSE
    ELSE now - posted_at[1] <= days * 24

(***************************************************************************)
(* job_radar.py: its own title patterns (lines 376-381), which shadow the  *)
(* ones of rules.py inside this file.                                      *)
(***************************************************************************)
JR_JUNIOR_TITLE ==
    Word(Alt(<<Lit("junior"),
               Cat(<<Lit("new"), Ws0, Lit("grad")>>),
               Cat(<<Lit("entry"), Ws0, Lit("level")>>),
               Lit("entry-level"),
               Cat(<<Lit("software"), Ws0, Lit("engineer"), Ws0, Lit("i"), Bnd>>),
               Cat(<<Lit("associate"), Bnd>>)>>))

JR_SENIOR_BLOCK ==
    Word(Alt(<<Lit("senior"), Cat(<<Lit("sr"), Opt(Lit("."))>>), Lit("staff"),
               Lit("principal"), Lit("lead"), Lit("manager"), Lit("director"),
               Lit("head"), Lit("vp"), Cat(<<Lit("vice"), Ws0, Lit("president")>>),
               Lit("chief")>>))

\* _matches_basic: senior_markers
SeniorMarkers == {"senior", "staff", "principal", "lead", "manager", "architect", "sr "}

\* (mutation: with junior_only a title passes only on an explicit junior signal)
matches_basic_JuniorSignalRequired(job, junior_only, relax, us_remote_only) ==
    IF ~junior_only /\ ~us_remote_only
    THEN Truthy(job.title) /\ strip(job.title) # ""
    ELSE IF ~looks_like_engineering(job.title) THEN FALSE
    ELSE IF junior_only
    THEN IF ContainsAny(lower(job.title), SeniorMarkers) THEN FALSE
         ELSE IF is_junior_title_or_desc(job.title, job.description_snippet, relax)
              THEN TRUE
         ELSE FALSE
    ELSE LET loc == lower(OrEmpty(job.location)) IN
         IF loc # "" /\ (~Contains(loc, "remote")
                           \/ (~Contains(loc, "united states") /\ ~Contains(loc, "us")))
         THEN FALSE
         ELSE TRUE

\* _matches_basic(job, junior_only=, relax=, us_remote_only=)
matches_basic(job, junior_only, relax, us_remote_only) ==
    IF ~junior_only /\ ~us_remote_only
    THEN Truthy(job.title) /\ strip(job.title) # ""
    ELSE IF ~looks_like_engineering(job.title) THEN FALSE
    ELSE IF junior_only
    THEN IF ContainsAny(lower(job.title), SeniorMarkers) THEN FALSE
         ELSE IF is_junior_title_or_desc(job.title, job.description_snippet, relax)
              THEN TRUE
         ELSE TRUE
    ELSE LET loc == lower(OrEmpty(job.location)) IN
         IF loc # "" /\ (~Contains(loc, "remote")
                           \/ (~Contains(loc, "united states") /\ ~Contains(loc, "us")))
         THEN FALSE
         ELSE TRUE

(***************************************************************************)
(* job_radar.py: _parse_posted_at_from_text (lines 263-312).               *)
(***************************************************************************)
IsDigit(s, i) == i >= 1 /\ i <= Len(s) /\ Ch(s, i) \in DigitSet

DigitVal(c) == (CHOOSE k \in 1..Len(DigitChars) : Ch(DigitChars, k) = c) - 1

\* int(s) for a string of digits
RECURSIVE ToInt(_)
ToInt(s) ==
    IF s = "" THEN 0
    ELSE ToInt(SubSeq(s, 1, Len(s) - 1)) * 10 + DigitVal(Ch(s, Len(s)))

\* m.start() of pattern.search(s), where it matches
FirstStart(r, s) ==
    CHOOSE i \in 1..(Len(s) + 1) :
        Ends(r, s, i) # {} /\ \A k \in 1..(i - 1) : Ends(r, s, k) = {}

\* the digits a (\d{1,2}) or ([0-3]?\d) group captured: the one or two digits
\* that start at the first digit at or after position i
FirstDigitFrom(s, i) ==
    CHOOSE k \in i..Len(s) : IsDigit(s, k) /\ \A m \in i..(k - 1) : ~IsDigit(s, m)

DigitsFrom(s, i) ==
    LET k == FirstDigitFrom(s, i)
    IN  IF IsDigit(s, k + 1) THEN SubSeq(s, k, k + 1) ELSE SubSeq(s, k, k)

Year20 == Cat(<<Lit("20"), Dig, Dig>>)     \* 20\d{2}

ISO_DATE ==
    Cat(<<Bnd, Year20, Lit("-"),
          Alt(<<Cat(<<Lit("0"), Set("123456789")>>), Cat(<<Lit("1"), Set("012")>>)>>),
          Lit("-"),
          Alt(<<Cat(<<Lit("0"), Set("123456789")>>), Cat(<<Set("12"), Dig>>),
                Cat(<<Lit("3"), Set("01")>>)>>),
          Bnd>>)

MonthName ==
    Alt(<<Cat(<<Lit("jan"), Opt(Lit("uary"))>>), Cat(<<Lit("feb"), Opt(Lit("ruary"))>>),
          Cat(<<Lit("mar"), Opt(Lit("ch"))>>), Cat(<<Lit("apr"), Opt(Lit("il"))>>),
          Lit("may"), Cat(<<Lit("jun"), Opt(Lit("e"))>>),
          Cat(<<Lit("jul"), Opt(Lit("y"))>>), Cat(<<Lit("aug"), Opt(Lit("ust"))>>),
          Cat(<<Lit("sep"), Opt(Cat(<<Lit("t"), Opt(Lit("ember"))>>))>>),
          Cat(<<Lit("oct"), Opt(Lit("ober"))>>), Cat(<<Lit("nov"), Opt(Lit("ember"))>>),
          Cat(<<Lit("dec"), Opt(Lit("ember"))>>)>>)

MON_DD_YYYY ==
    Cat(<<Bnd, MonthName, Ws1, Opt(Set("0123")), Dig, Opt(Lit(",")), Ws1, Year20, Bnd>>)

DayAgo == Cat(<<Ws1, Lit("day"), Opt(Lit("s")), Ws1, Lit("ago")>>)

POSTED_X_DAYS ==
    Cat(<<Lit("posted"), Ws1, Opt(Cat(<<Lit("about"), Ws1>>)), Dig, Opt(Dig), DayAgo>>)

X_DAYS_AGO == Cat(<<Bnd, Dig, Opt(Dig), DayAgo, Bnd>>)

\* _MONTHS[mon_key[:3]]
MonthNumber(abbr) ==
    CASE abbr = "jan" -> 1 [] abbr = "feb" -> 2 [] abbr = "mar" -> 3 [] abbr = "apr" -> 4
      [] abbr = "may" -> 5 [] abbr = "jun" -> 6 [] abbr = "jul" -> 7 [] abbr = "aug" -> 8
      [] abbr = "sep" -> 9 [] abbr = "oct" -> 10 [] abbr = "nov" -> 11 [] abbr = "dec" -> 12

IsLeap(y) == (y % 4 = 0 /\ y % 100 # 0) \/ y % 400 = 0

DaysInMonth(y, m) ==
    IF m = 2 THEN (IF IsLeap(y) THEN 29 ELSE 28)
    ELSE IF m \in {4, 6, 9, 11} THEN 30 ELSE 31

\* datetime(y, m, d) inside the try block: a ValueError ends the function with None
DateOrNone(y, m, d) ==
    IF m >= 1 /\ m <= 12 /\ d >= 1 /\ d <= DaysInMonth(y, m)
    THEN At(DateTime(y, m, d, 0)) ELSE NoDate

parse_posted_at_from_text(text, now) ==
    IF text = "" THEN NoDate
    ELSE IF Search(ISO_DATE, text)
    THEN LET i == FirstStart(ISO_DATE, text) IN
         DateOrNone(ToInt(SubSeq(text, i, i + 3)), ToInt(SubSeq(text, i + 5, i + 6)),
                    ToInt(SubSeq(text, i + 8, i + 9)))
    ELSE LET low == lower(text) IN
    IF Search(MON_DD_YYYY, low)
    THEN LET i == FirstStart(MON_DD_YYYY, low)
             j == CHOOSE e \in Ends(MON_DD_YYYY, low, i) : TRUE
         IN  DateOrNone(ToInt(SubSeq(low, j - 4, j - 1)),
                        MonthNumber(SubSeq(low, i, i + 2)),
                        ToInt(DigitsFrom(low, i)))
    ELSE IF Search(POSTED_X_DAYS, low)
    THEN At(now - 24 * ToInt(DigitsFrom(low, FirstStart(POSTED_X_DAYS, low))))
    ELSE IF Search(X_DAYS_AGO, low)
    THEN At(now - 24 * ToInt(DigitsFrom(low, FirstStart(X_DAYS_AGO, low))))
    ELSE NoDate

(***************************************************************************)
(* radar/core/dedupe.py                                                    *)
(***************************************************************************)
\* _fingerprint: f"{title.lower()}|{company.lower()}|{url.lower()}"
fingerprint(job) == lower(job.title) \o "|" \o lower(job.company) \o "|" \o lower(job.url)

\* The dict `seen` is a sequence of <<key, value>> pairs in insertion order:
\* assigning an existing key replaces its value in place, a new key is appended.
DictHas(d, k) == \E n \in 1..Len(d) : d[n][1] = k

\* (mutation: an existing key keeps its first value)
DictSet_FirstWins(d, k, v) ==
    IF DictHas(d, k) THEN d ELSE Append(d, <<k, v>>)

DictSet(d, k, v) ==
    IF DictHas(d, k)
    THEN [n \in 1..Len(d) |-> IF d[n][1] = k THEN <<k, v>> ELSE d[n]]
    ELSE Append(d, <<k, v>>)

DictValues(d) == [n \in 1..Len(d) |-> d[n][2]]

RECURSIVE DedupeLoop(_, _, _)
DedupeLoop(jobs, n, seen) ==
    IF n > Len(jobs) THEN seen
    ELSE DedupeLoop(jobs, n + 1, DictSet(seen, fingerprint(jobs[n]), jobs[n]))

\* deduplicate_jobs(jobs) -> list(seen.values())
deduplicate_jobs(jobs) == DictValues(DedupeLoop(jobs, 1, <<>>))

(***************************************************************************)
(* radar/db/crud.py: upsert_job over the jobs table.  The table is the     *)
(* sequence of its rows in insertion order (a row's index is its id).  A   *)
(* call that raises leaves the table as it was.                            *)
(***************************************************************************)
\* (mutation: the provider filter of line 176 is left out)
JobQuery_AnyProvider(rows, ext, provider) ==
    {i \in 1..Len(rows) : rows[i].external_id = ext}

\* session.query(Job).filter(Job.external_id == ext)[.filter(Job.provider == provider)]
JobQuery(rows, ext, provider) ==
    {i \in 1..Len(rows) :
        /\ rows[i].external_id = ext
        /\ (provider # None => rows[i].provider = provider)}

\* The row upsert_job resolves: <<"row", i>>, <<"none">>, or <<"raise">> when
\* one_or_none() finds several rows.  legacy is TRUE when the row was found by
\* its legacy_external_id.
ResolveJob(rows, d) ==
    LET q == JobQuery(rows, d.external_id, d.provider) IN
    IF Cardinality(q) > 1 THEN [kind |-> "raise", row |-> 0, legacy |-> FALSE]
    ELSE IF q # {} THEN [kind |-> "row", row |-> CHOOSE i \in q : TRUE, legacy |-> FALSE]
    ELSE IF ~Truthy(d.legacy_external_id) THEN [kind |-> "none", row |-> 0, legacy |-> FALSE]
    ELSE LET lq == JobQuery(rows, d.legacy_external_id, d.provider) IN
         IF Cardinality(lq) > 1 THEN [kind |-> "raise", row |-> 0, legacy |-> FALSE]
         ELSE IF lq # {} THEN [kind |-> "row", row |-> CHOOSE i \in lq : TRUE, legacy |-> TRUE]
         ELSE LET aq == JobQuery(rows, d.legacy_external_id, None) IN
              IF Cardinality(aq) > 1 THEN [kind |-> "raise", row |-> 0, legacy |-> FALSE]
              ELSE IF aq # {}
                   THEN [kind |-> "row", row |-> CHOOSE i \in aq : TRUE, legacy |-> TRUE]
                   ELSE [kind |-> "none", row |-> 0, legacy |-> FALSE]

\* (mutation: posted_at is overwritten like any other non-null field)
UpdatedPostedAt_Overwrite(old, new) ==
    IF new = NoDate THEN old ELSE new

\* lines 206-210 for key == "posted_at": None is skipped, and a posted_at
\* already stored is kept
UpdatedPostedAt(old, new) ==
    IF new = NoDate THEN old
    ELSE IF old # NoDate THEN old
    ELSE new

\* lines 203-210: overwrite-if-non-null for the other fields
UpdatedField(old, new) == IF new = None THEN old ELSE new

\* lines 202-210 on the resolved row (after the legacy re-keying of lines 191-194)
UpdateRow(row, d) ==
    [external_id |-> UpdatedField(row.external_id, d.external_id),
     provider    |-> UpdatedField(row.provider, d.provider),
     title       |-> UpdatedField(row.title, d.title),
     posted_at   |-> UpdatedPostedAt(row.posted_at, d.posted_at)]

\* lines 212-214: Job(**job_data)
NewRow(d) ==
    [external_id |-> d.external_id, provider |-> d.provider,
     title |-> d.title, posted_at |-> d.posted_at]

\* upsert_job(session, job_data): the outcome ("raise" | "update" | "insert"),
\* the row touched and the table afterwards
upsert_job(rows, d) ==
    IF ~Truthy(d.external_id)
    THEN [outcome |-> "raise", row |-> 0, rows |-> rows]        \* ValueError
    ELSE LET r == ResolveJob(rows, d) IN
         IF r.kind = "raise"
         THEN [outcome |-> "raise", row |-> 0, rows |-> rows]   \* MultipleResultsFound
         ELSE IF r.kind = "row"
         THEN [outcome |-> "update", row |-> r.row,
               rows |-> [rows EXCEPT ![r.row] = UpdateRow(rows[r.row], d)]]
         ELSE IF d.provider = None \/ d.title = None
         THEN [outcome |-> "raise", row |-> 0, rows |-> rows]   \* NOT NULL column
         ELSE [outcome |-> "insert", row |-> Len(rows) + 1,
               rows |-> Append(rows, NewRow(d))]

(***************************************************************************)
(* job_radar.py, main: filtering, skill scoring, threshold, ordering,      *)
(* rank maps, deduplication and the output payload (lines 803-941).        *)
(* A record of all_jobs is referred to by its index in all_jobs (its       *)
(* object identity); `scored` holds pairs <<skill_score, index>>.          *)
(***************************************************************************)
\* dict.get(k, default) on a dict kept as <<key, value>> pairs
DictGet(d, k, default) ==
    IF DictHas(d, k) THEN (CHOOSE v \in {d[n][2] : n \in {m \in 1..Len(d) : d[m][1] = k}} : TRUE)
    ELSE default

\* line 840: f"{(j.title or '')} {(j.description_snippet or '')}".lower()
Hay(j) == lower(OrEmpty(j.title) \o " " \o OrEmpty(j.description_snippet))

\* lines 822-833: the basic, US-remote and recency gates of the scoring loop
PassesGates(j, args, now) ==
    /\ matches_basic(j, args.junior_only, args.relax, FALSE)
    /\ (args.us_remote_only => looks_remote_us(j.location, j.description_snippet))
    /\ (args.recent_days # 0 =>
            IF j.posted_at = NoDate THEN ~args.require_date
            ELSE is_recent(j.posted_at, args.recent_days, now))

Dropped == <<>>

\* lines 838-862: <<skill_score>> of a record that is kept, Dropped for a
\* record the hard gate drops
SkillScore(j, args) ==
    LET hay        == Hay(j)
        any        == args.skills_any
        all        == args.skills_all
        configured == any # {} \/ all # {}
        anyCount   == IF any # {} THEN Cardinality({t \in any : Contains(hay, t)}) ELSE 0
        allMissing == all # {} /\ ~(\A t \in all : Contains(hay, t))
        score      == IF ~configured THEN 0
                      ELSE IF allMissing THEN anyCount
                      ELSE anyCount + Cardinality(all)
    IN  IF configured /\ allMissing /\ args.skills_hard THEN Dropped
        ELSE IF configured /\ args.skills_hard /\ score = 0 THEN Dropped
        ELSE IF ~args.skills_hard /\ score = 0 /\ looks_like_engineering(OrEmpty(j.title))
             THEN <<1>>
        ELSE <<score>>

\* lines 817-864: the loop over all_jobs
RECURSIVE ScoreLoop(_, _, _, _, _)
ScoreLoop(jobs, n, args, now, scored) ==
    IF n > Len(jobs) THEN scored
    ELSE IF ~PassesGates(jobs[n], args, now) THEN ScoreLoop(jobs, n + 1, args, now, scored)
    ELSE LET s == SkillScore(jobs[n], args) IN
         IF s = Dropped THEN ScoreLoop(jobs, n + 1, args, now, scored)
         ELSE ScoreLoop(jobs, n + 1, args, now, Append(scored, <<s[1], n>>))

\* (mutation: the threshold comparison is strict)
ApplyMinScore_Strict(scored, min_score) ==
    IF min_score > 0 THEN SelectSeq(scored, LAMBDA t : t[1] > min_score) ELSE scored

\* lines 867-872
ApplyMinScore(scored, min_score) ==
    IF min_score > 0 THEN SelectSeq(scored, LAMBDA t : t[1] >= min_score) ELSE scored

\* (mutation: ascending sort, then reversed -- equal scores come out reversed)
RECURSIVE SortByScore_Reversed(_)
SortByScore_Reversed(scored) ==
    IF scored = <<>> THEN <<>>
    ELSE LET t    == scored[Len(scored)]
             rest == SortByScore_Reversed(SubSeq(scored, 1, Len(scored) - 1))
             k    == Cardinality({n \in 1..Len(rest) : rest[n][1] > t[1]})
         IN  SubSeq(rest, 1, k) \o <<t>> \o SubSeq(rest, k + 1, Len(rest))

\* line 875: scored.sort(key=lambda t: t[0], reverse=True).  list.sort is
\* stable, also with reverse=True: each element goes after the elements
\* already placed whose key is not smaller.
RECURSIVE SortByScore(_)
SortByScore(scored) ==
    IF scored = <<>> THEN <<>>
    ELSE LET t    == scored[Len(scored)]
             rest == SortByScore(SubSeq(scored, 1, Len(scored) - 1))
             k    == Cardinality({n \in 1..Len(rest) : rest[n][1] >= t[1]})
         IN  SubSeq(rest, 1, k) \o <<t>> \o SubSeq(rest, k + 1, Len(rest))

\* line 876: filtered = [j for _, j in scored]
Filtered(scored) == [n \in 1..Len(scored) |-> scored[n][2]]

\* lines 884-886
ScoreByUrlStep(score_by_url, url, score) ==
    IF ~DictHas(score_by_url, url) \/ score > DictGet(score_by_url, url, 0)
    THEN DictSet(score_by_url, url, score)
    ELSE score_by_url

\* (mutation: the position of the last occurrence of the URL is kept)
RankByUrlStep_LastSeen(rank_by_url, url, idx) == DictSet(rank_by_url, url, idx)

\* lines 888-889
RankByUrlStep(rank_by_url, url, idx) ==
    IF ~DictHas(rank_by_url, url) THEN DictSet(rank_by_url, url, idx) ELSE rank_by_url

\* lines 879-889: <<score_by_url, rank_by_url>> after the walk over `scored`
RECURSIVE RankLoop(_, _, _, _, _)
RankLoop(jobs, scored, idx, score_by_url, rank_by_url) ==
    IF idx > Len(scored) THEN <<score_by_url, rank_by_url>>
    ELSE LET score == scored[idx][1]
             url   == jobs[scored[idx][2]].url
         IN  IF Truthy(url)
             THEN RankLoop(jobs, scored, idx + 1,
                           ScoreByUrlStep(score_by_url, url, score),
                           RankByUrlStep(rank_by_url, url, idx))
             ELSE RankLoop(jobs, scored, idx + 1, score_by_url, rank_by_url)

\* lines 472-475 and 891: dedupe(filtered).  deduplicate_jobs does not raise
\* on NormalizedJob objects, so the legacy fallback is never entered.  The
\* objects are passed with their identity (ref) attached.
dedupe(jobs, filtered) ==
    LET objs == [n \in 1..Len(filtered) |-> [ref |-> filtered[n]] @@ jobs[filtered[n]]]
        kept == deduplicate_jobs(objs)
    IN  [n \in 1..Len(kept) |-> kept[n].ref]

\* obj["rank"] is None (<<>>) or a position <<r>>
NoRank == <<>>

\* lines 934-941: the skill_score and rank attached to one output object
PayloadEntry(jobs, ref, score_by_url, rank_by_url) ==
    LET url_key == jobs[ref].url IN
    IF Truthy(url_key)
    THEN [ref |-> ref, skill_score |-> DictGet(score_by_url, url_key, 0),
          rank |-> IF DictHas(rank_by_url, url_key)
                   THEN <<DictGet(rank_by_url, url_key, 0)>> ELSE NoRank]
    ELSE [ref |-> ref, skill_score |-> 0, rank |-> NoRank]

\* lines 924-941
Payload(jobs, unique, score_by_url, rank_by_url) ==
    [n \in 1..Len(unique) |-> PayloadEntry(jobs, unique[n], score_by_url, rank_by_url)]

(***************************************************************************)
(* job_radar.py: the three enrichment passes (lines 49-259, 315-374).      *)
(* os.environ is a record of the variables read (None when unset).  A pass *)
(* submits one future per planned record; the text a fetch returns is an   *)
(* input of the completion step.                                           *)
(***************************************************************************)
Raised == <<>>

\* int(v) for a str: <<n>>, or Raised for a ValueError
IntOf(v) ==
    LET t      == strip(v)
        signed == t # "" /\ Ch(t, 1) \in {"+", "-"}
        digits == IF signed THEN SubSeq(t, 2, Len(t)) ELSE t
    IN  IF digits = "" \/ \E k \in 1..Len(digits) : ~IsDigit(digits, k) THEN Raised
        ELSE IF signed /\ Ch(t, 1) = "-" THEN <<0 - ToInt(digits)>>
        ELSE <<ToInt(digits)>>

\* lines 61-65
junior_global_cap(environ) ==
    LET cap_env == environ.RADAR_JUNIOR_TOPUP_CAP IN
    IF ~Truthy(cap_env) THEN 150
    ELSE IF IntOf(cap_env) = Raised THEN 150
    ELSE IntOf(cap_env)[1]

\* _PROVIDER_CAP_ENV.get(provider_key.lower()), for the providers of the model
ProviderCapEnv(environ, provider_key) ==
    CASE lower(provider_key) = "greenhouse" -> environ.RADAR_DESC_CAP_GREENHOUSE
      [] lower(provider_key) = "lever" -> environ.RADAR_DESC_CAP_LEVER
      [] OTHER -> None

\* _cap_for_provider
cap_for_provider(environ, provider_key) ==
    LET pv == ProviderCapEnv(environ, provider_key)
        v  == environ.RADAR_DESC_CAP
    IN  IF pv # None /\ IntOf(pv) # Raised THEN IntOf(pv)[1]
        ELSE IF v = None THEN 30
        ELSE IF IntOf(v) = Raised THEN 30
        ELSE IntOf(v)[1]

\* _desc_max_chars
desc_max_chars(environ) ==
    LET v == environ.RADAR_DESC_MAX_CHARS IN
    IF v = None THEN 1200
    ELSE IF IntOf(v) = Raised THEN 1200
    ELSE IntOf(v)[1]

\* lines 321-324, with cap=None as main calls it
backfill_max_total(environ) ==
    LET v == IF environ.RADAR_DATE_BACKFILL_CAP = None THEN "120"
             ELSE environ.RADAR_DATE_BACKFILL_CAP
    IN  IF IntOf(v) = Raised THEN 120 ELSE IntOf(v)[1]

\* txt[:n]
Prefix(txt, n) ==
    IF n >= Len(txt) THEN txt
    ELSE IF n >= 0 THEN SubSeq(txt, 1, n)
    ELSE IF Len(txt) + n > 0 THEN SubSeq(txt, 1, Len(txt) + n)
    ELSE ""

\* `(j.description_snippet or "").strip()` is truthy
HasSnippet(j) == strip(OrEmpty(j.description_snippet)) # ""

\* the light location test of lines 95-96 (and 511-512)
LocationNotUsRemote(location) ==
    LET loc == lower(OrEmpty(location)) IN
    loc # "" /\ (~Contains(loc, "remote")
                   \/ (~Contains(loc, "united states") /\ ~Contains(loc, "us")))

\* lines 100-103 and 224-227
TooOld(j, recent_days, now) ==
    recent_days # 0 /\ j.posted_at # NoDate /\ ~is_recent(j.posted_at, recent_days, now)

\* (mutation: a record that already has a snippet stays a candidate)
JuniorCandidate_IgnoresSnippet(j, a, now) ==
    LET title == strip(OrEmpty(j.title)) IN
    /\ Truthy(j.url)
    /\ title # ""
    /\ looks_like_engineering(title)
    /\ ~SearchI(JR_SENIOR_BLOCK, title)
    /\ ~(/\ a.us_remote_only
         /\ ~looks_remote_us(j.location, j.description_snippet)
         /\ LocationNotUsRemote(j.location))
    /\ ~TooOld(j, a.recent_days, now)

\* lines 75-105: the record is appended to `candidates`
JuniorCandidate(j, a, now) ==
    LET title == strip(OrEmpty(j.title)) IN
    /\ ~HasSnippet(j)
    /\ Truthy(j.url)
    /\ title # ""
    /\ looks_like_engineering(title)
    /\ ~SearchI(JR_SENIOR_BLOCK, title)
    /\ ~(/\ a.us_remote_only
         /\ ~looks_remote_us(j.location, j.description_snippet)
         /\ LocationNotUsRemote(j.location))
    /\ ~TooOld(j, a.recent_days, now)

\* lines 111-115: _priority_key
PriorityKey(j) ==
    LET t == lower(OrEmpty(j.title)) IN
    <<IF SearchI(JR_JUNIOR_TITLE, t) THEN -1 ELSE 0, Len(t)>>

KeyLeq(x, y) == x[1] < y[1] \/ (x[1] = y[1] /\ x[2] <= y[2])

\* line 117: candidates.sort(key=_priority_key), stable and ascending, on a
\* list of record indices
RECURSIVE SortByPriority(_, _)
SortByPriority(jobs, cands) ==
    IF cands = <<>> THEN <<>>
    ELSE LET c    == cands[Len(cands)]
             rest == SortByPriority(jobs, SubSeq(cands, 1, Len(cands) - 1))
             k    == Cardinality({n \in 1..Len(rest) :
                                    KeyLeq(PriorityKey(jobs[rest[n]]), PriorityKey(jobs[c]))})
         IN  SubSeq(rest, 1, k) \o <<c>> \o SubSeq(rest, k + 1, Len(rest))

\* the indices of a list, in order
Indices(jobs) == [n \in 1..Len(jobs) |-> n]

\* lines 61-118: the plan of _junior_top_up_descriptions (record indices)
junior_plan(jobs, a, environ, now) ==
    LET global_cap == junior_global_cap(environ)
        candidates == SelectSeq(Indices(jobs), LAMBDA n : JuniorCandidate(jobs[n], a, now))
        sorted     == SortByPriority(jobs, candidates)
    IN  IF global_cap <= 0 THEN <<>>
        ELSE SubSeq(sorted, 1, IF global_cap < Len(sorted) THEN global_cap ELSE Len(sorted))

\* lines 120-127, 237-244: _fetch_and_trim, given the page text ("" when the
\* request failed)
fetch_and_trim(page, environ) == Prefix(page, desc_max_chars(environ))

\* lines 134-148, 249-259: the completion of one future
AttachSnippet(j, snippet) ==
    IF snippet # "" THEN [j EXCEPT !.description_snippet = snippet] ELSE j

ProviderKey(j) == lower(OrEmpty(j.source))

\* lines 198-202: the provider keys in order of first appearance
RECURSIVE ProviderKeys(_, _, _)
ProviderKeys(jobs, n, keys) ==
    IF n > Len(jobs) THEN keys
    ELSE LET pk == ProviderKey(jobs[n]) IN
         IF pk = "" \/ \E k \in 1..Len(keys) : keys[k] = pk
         THEN ProviderKeys(jobs, n + 1, keys)
         ELSE ProviderKeys(jobs, n + 1, Append(keys, pk))

\* lines 216-228: the record is appended to the provider's candidates
TopUpCandidate(j, a, now) ==
    /\ ~HasSnippet(j)
    /\ matches_basic(j, a.junior_only, a.relax, FALSE)
    /\ ~(a.us_remote_only /\ ~looks_remote_us(j.location, j.description_snippet))
    /\ ~TooOld(j, a.recent_days, now)

\* (mutation: the deficit is the cap itself, the snippets already held are
\* not subtracted)
ProviderPlan_IgnoresHave(jobs, pk, a, environ, now) ==
    LET lst     == SelectSeq(Indices(jobs), LAMBDA n : ProviderKey(jobs[n]) = pk)
        cap     == cap_for_provider(environ, pk)
        cands   == SelectSeq(lst, LAMBDA n : TopUpCandidate(jobs[n], a, now))
    IN  IF cap <= 0 THEN <<>>
        ELSE SubSeq(cands, 1, IF cap < Len(cands) THEN cap ELSE Len(cands))

\* lines 209-231 for one provider
ProviderPlan(jobs, pk, a, environ, now) ==
    LET lst     == SelectSeq(Indices(jobs), LAMBDA n : ProviderKey(jobs[n]) = pk)
        have    == Cardinality({n \in 1..Len(jobs) : ProviderKey(jobs[n]) = pk /\ HasSnippet(jobs[n])})
        cap     == cap_for_provider(environ, pk)
        deficit == IF cap - have > 0 THEN cap - have ELSE 0
        cands   == SelectSeq(lst, LAMBDA n : TopUpCandidate(jobs[n], a, now))
    IN  IF deficit <= 0 THEN <<>>
        ELSE SubSeq(cands, 1, IF deficit < Len(cands) THEN deficit ELSE Len(cands))

\* lines 207-231: the plan of _top_up_descriptions
RECURSIVE TopUpPlanLoop(_, _, _, _, _, _, _)
TopUpPlanLoop(jobs, keys, k, a, environ, now, plan) ==
    IF k > Len(keys) THEN plan
    ELSE TopUpPlanLoop(jobs, keys, k + 1, a, environ, now,
                       plan \o ProviderPlan(jobs, keys[k], a, environ, now))

top_up_plan(jobs, a, environ, now) ==
    TopUpPlanLoop(jobs, ProviderKeys(jobs, 1, <<>>), 1, a, environ, now, <<>>)

\* line 332
BackfillTarget(j) == j.posted_at = NoDate /\ Truthy(j.url)

\* lines 321-335: the targets of _backfill_posted_at
backfill_targets(jobs, environ) ==
    LET max_total == backfill_max_total(environ)
        all       == SelectSeq(Indices(jobs), LAMBDA n : BackfillTarget(jobs[n]))
    IN  IF max_total <= 0 THEN <<>>
        ELSE SubSeq(all, 1, IF max_total < Len(all) THEN max_total ELSE Len(all))

\* lines 337-347: _fetch_text_for, given the page text
fetch_text_for(j, page) ==
    LET snip == strip(OrEmpty(j.description_snippet)) IN
    IF snip # "" THEN snip ELSE page

\* lines 355-370: the completion of one future
AttachPostedAt(j, txt, now) ==
    LET dt == parse_posted_at_from_text(txt, now) IN
    IF txt = "" THEN j
    ELSE IF dt = NoDate THEN j
    ELSE [j EXCEPT !.posted_at = dt]

SeqToSet(q) == {q[n] : n \in 1..Len(q)}

(***************************************************************************)
(* State.  Each group of variables belongs to one component; a             *)
(* specification below runs one component and leaves the others idle.      *)
(***************************************************************************)
VARIABLES
    dd_pc,      \* deduplicator: "start" | "done"
    dd_in,      \* the sequence handed to deduplicate_jobs
    dd_out,     \* the list it returned
    cl_title,   \* classifier: the title passed to is_junior_title_or_desc
    cl_desc,    \*   the description passed (None, "" or a text)
    cl_called,  \*   the values of `relaxed` it has been called with
    cl_result,  \*   the value returned for each of them
    up_rows,    \* jobs table: the rows, in insertion order
    up_first,   \*   per row: the first non-null posted_at a call supplied for it
    up_last,    \*   the last upsert_job call: its job_data, outcome and row
    up_n,       \*   number of upsert_job calls made
    pl_pc,      \* pipeline (main): the stage reached
    args,       \*   the parsed command line (with the skill term sets)
    env,        \*   os.environ: the variables the passes read
    all_jobs,   \*   the fetched records, in fetch order
    futs,       \*   the running pass: records whose future has not completed
    pass_log,   \*   per pass started: its name, all_jobs as it selected, its plan
    scored,     \*   the list of (skill_score, record) pairs
    scored_log, \*   the values `scored` had after the loop and after the threshold
    filtered,   \*   [j for _, j in scored]
    score_by_url,
    rank_by_url,
    unique,     \*   dedupe(filtered)
    payload,    \*   the output objects
    tasks,      \*   the fetch fan-out: what each (provider, company) task does
    fetch_futs, \*   the fetch futures that have not completed
    fetch_log,  \*   the tasks in the order as_completed yielded them
    dt_pc,      \* date handling: "start" | "done"
    dt_text,    \*   the date text: the argument of parse_curated_date, or the
                \*   date cell of the curated row
    dt_now,     \*   the current UTC time
    dt_flags,   \*   enable_scrape / enable_inference of fetch_curated_github_jobs
    dt_ctx,     \*   the git context: what each of its three getters does
    dt_calls,   \*   the getters infer_posted_at has called, in call order
    dt_result,  \*   what the function under check returned
    dt_payload, \*   the record the curated provider appended for the row
    nz_pc,      \* provider normalisation: "start" | "done"
    nz_posting, \*   the posting as the provider has it: title and fetched snippet
    nz_job,     \*   the NormalizedJob the provider built for it
    ef_pc,      \* entry filter: "start" | "done"
    ef_job,     \*   the job dict passed to filter_entry_level
    ef_decision, \*  the (decision, reason) it returned
    api_pc,     \* GET /jobs: "start" | "scan" | "done"
    api_rows,   \*   the jobs table, in id order
    api_req,    \*   the request: query parameters and the entry-exclusion flag
    api_start,  \*   _fetch_with_entry_filter: offset of the next chunk
    api_kept_rows, \* its kept_rows
    api_kept_total, \* its kept_total
    api_resp    \*   the JobsResponse returned

ddVars == <<dd_pc, dd_in, dd_out>>
clVars == <<cl_title, cl_desc, cl_called, cl_result>>
upVars == <<up_rows, up_first, up_last, up_n>>
enVars == <<env, all_jobs, futs, pass_log>>
rkVars == <<scored, scored_log, filtered, score_by_url, rank_by_url, unique, payload>>
ftVars == <<tasks, fetch_futs, fetch_log>>
plVars == <<pl_pc, args, enVars, rkVars, ftVars>>
dtVars == <<dt_pc, dt_text, dt_now, dt_flags, dt_ctx, dt_calls, dt_result, dt_payload>>
nzVars == <<nz_pc, nz_posting, nz_job>>
efVars == <<ef_pc, ef_job, ef_decision>>
apVars == <<api_pc, api_rows, api_req, api_start, api_kept_rows, api_kept_total, api_resp>>
svVars == <<nzVars, efVars, apVars>>
vars == <<ddVars, clVars, upVars, plVars, dtVars, svVars>>

ddIdle == dd_pc = "idle" /\ dd_in = <<>> /\ dd_out = <<>>
clIdle == cl_title = "" /\ cl_desc = None /\ cl_called = {} /\ cl_result = <<>>
upIdle == up_rows = <<>> /\ up_first = <<>> /\ up_last = <<>> /\ up_n = 0
enIdle == env = <<>> /\ futs = {} /\ pass_log = <<>>
rkIdle ==
    /\ scored = <<>> /\ scored_log = <<>> /\ filtered = <<>>
    /\ score_by_url = <<>> /\ rank_by_url = <<>> /\ unique = <<>> /\ payload = <<>>
ftIdle == tasks = <<>> /\ fetch_futs = {} /\ fetch_log = <<>>
plIdle == pl_pc = "idle" /\ args = <<>> /\ all_jobs = <<>> /\ enIdle /\ rkIdle /\ ftIdle
dtIdle ==
    /\ dt_pc = "idle" /\ dt_text = None /\ dt_now = 0 /\ dt_flags = <<>> /\ dt_ctx = <<>>
    /\ dt_calls = <<>> /\ dt_result = <<>> /\ dt_payload = <<>>
nzIdle == nz_pc = "idle" /\ nz_posting = <<>> /\ nz_job = <<>>
efIdle == ef_pc = "idle" /\ ef_job = <<>> /\ ef_decision = <<>>
apIdle ==
    /\ api_pc = "idle" /\ api_rows = <<>> /\ api_req = <<>> /\ api_start = 0
    /\ api_kept_rows = <<>> /\ api_kept_total = 0 /\ api_resp = <<>>
svIdle == nzIdle /\ efIdle /\ apIdle

(***************************************************************************)
(* Deduplicator runs.                                                      *)
(***************************************************************************)
MaxDedupeJobs == 3

DdTitles    == {"Dev", "dev", "Dev|x"}
DdCompanies == {"Acme", "x|Acme"}
DdUrls      == {"u/1", "U/1"}
DdJobs == [title : DdTitles, company : DdCompanies, url : DdUrls]

SeqsUpTo(S, n) == UNION {[1..k -> S] : k \in 0..n}

DedupeInit ==
    /\ dd_pc = "start"
    /\ dd_in \in SeqsUpTo(DdJobs, MaxDedupeJobs)
    /\ dd_out = <<>>
    /\ clIdle /\ upIdle /\ plIdle /\ dtIdle /\ svIdle

DedupeRun ==
    /\ dd_pc = "start"
    /\ dd_out' = deduplicate_jobs(dd_in)
    /\ dd_pc' = "done"
    /\ UNCHANGED <<dd_in, clVars, upVars, plVars, dtVars, svVars>>

DedupeNext == DedupeRun

SpecDedupe == DedupeInit /\ [][DedupeNext]_vars

\* C1: after deduplicate_jobs the output holds exactly one record per distinct
\* fingerprint of the input, no input fingerprint is missing, and the record
\* kept for a fingerprint is the last input record carrying it.
LastIndexOf(jobs, fp) ==
    CHOOSE n \in 1..Len(jobs) :
        /\ fingerprint(jobs[n]) = fp
        /\ \A m \in (n + 1)..Len(jobs) : fingerprint(jobs[m]) # fp

C1_DedupeLastSeenWins ==
    dd_pc = "done" =>
        /\ \A a, b \in 1..Len(dd_out) :
               fingerprint(dd_out[a]) = fingerprint(dd_out[b]) => a = b
        /\ {fingerprint(dd_out[a]) : a \in 1..Len(dd_out)}
               = {fingerprint(dd_in[n]) : n \in 1..Len(dd_in)}
        /\ \A a \in 1..Len(dd_out) :
               dd_out[a] = dd_in[LastIndexOf(dd_in, fingerprint(dd_out[a]))]

\* Two input records that differ only in letter case were collapsed and the
\* later one survived.
C1_Witness ==
    /\ dd_pc = "done"
    /\ Len(dd_in) = 3
    /\ Len(dd_out) = 2
    /\ \E a, b \in 1..Len(dd_in) :
           /\ a < b
           /\ dd_in[a] # dd_in[b]
           /\ fingerprint(dd_in[a]) = fingerprint(dd_in[b])
           /\ \E k \in 1..Len(dd_out) : dd_out[k] = dd_in[b]

(***************************************************************************)
(* Junior classifier runs: is_junior_title_or_desc is called on one        *)
(* (title, description) pair with relaxed=False and with relaxed=True.     *)
(***************************************************************************)
ClTitles == {
    "Senior Software Engineer", "Sr. Developer", "Lead New Grad Engineer",
    "Staff Engineer I", "Junior Engineering Manager", "Architect 0-2 years",
    "Junior Engineer", "Associate Software Engineer", "Software Engineer I",
    "Developer 0-2 years", "Software Engineer II", "Junior Engineer 2",
    "Software Engineer III", "New Grad Engineer 3", "Engineer", "QA Analyst", "" }

ClDescs == {
    None, "", "Great for new grads", "Entry level role, 0-2 years of experience",
    "5+ years of experience", "Junior role but 4 years required",
    "Work with senior staff", "Mentored by senior engineers; early career welcome",
    "2 years of experience", "Build things" }

ClassifierInit ==
    /\ cl_title \in ClTitles
    /\ cl_desc \in ClDescs
    /\ cl_called = {}
    /\ cl_result = [r \in {} |-> FALSE]
    /\ ddIdle /\ upIdle /\ plIdle /\ dtIdle /\ svIdle

Classify ==
    \E relaxed \in BOOLEAN \ cl_called :
        /\ cl_called' = cl_called \cup {relaxed}
        /\ cl_result' = [r \in cl_called' |->
                            IF r = relaxed
                            THEN is_junior_title_or_desc(cl_title, cl_desc, relaxed)
                            ELSE cl_result[r]]
        /\ UNCHANGED <<cl_title, cl_desc, ddVars, upVars, plVars, dtVars, svVars>>

ClassifierNext == Classify

SpecClassifier == ClassifierInit /\ [][ClassifierNext]_vars

\* C2: when SENIOR_BLOCK matches the title, is_junior_title_or_desc returns
\* false for every description (None included) and for both values of relaxed.
C2_SeniorTitleHardBlock ==
    SearchI(SENIOR_BLOCK, cl_title) => \A r \in cl_called : cl_result[r] = FALSE

\* A senior-marked title that also carries a junior marker was rejected in
\* relaxed mode although its description alone reads as junior.
C2_Witness ==
    /\ TRUE \in cl_called
    /\ SearchI(SENIOR_BLOCK, cl_title)
    /\ SearchI(JUNIOR_TITLE, cl_title)
    /\ Truthy(cl_desc)
    /\ JuniorByDescription(lower(cl_desc))
    /\ cl_result[TRUE] = FALSE

\* C3: relaxed mode is additive: whenever the call with relaxed=False returns
\* true, the call with relaxed=True on the same title and description returns true.
C3_RelaxedAdditive ==
    (cl_called = BOOLEAN /\ cl_result[FALSE]) => cl_result[TRUE]

\* Strict mode accepted on the title, the description carries a 4+ years phrase
\* (which the relaxed description checks reject), and relaxed mode accepted too.
C3_Witness ==
    /\ cl_called = BOOLEAN
    /\ cl_result[FALSE]
    /\ cl_result[TRUE]
    /\ Truthy(cl_desc)
    /\ Search(DESC_4PLUS_YEARS, lower(cl_desc))

(***************************************************************************)
(* Persistence runs: a sequence of upsert_job calls on an empty table.     *)
(***************************************************************************)
MaxUpserts == 3

UpProviders   == {"github", "lever", None}
UpExternalIds == {"e1", "e2", None}
UpLegacyIds   == {"e1", None}
UpTitles      == {"T1", "T2"}
UpDates       == {NoDate, At(DateTime(2025, 9, 15, 0)), At(DateTime(2025, 10, 1, 0))}

UpJobData ==
    [provider : UpProviders, external_id : UpExternalIds,
     legacy_external_id : UpLegacyIds, title : UpTitles, posted_at : UpDates]

UpsertInit ==
    /\ up_rows = <<>>
    /\ up_first = <<>>
    /\ up_last = <<>>
    /\ up_n = 0
    /\ ddIdle /\ clIdle /\ plIdle /\ dtIdle /\ svIdle

\* One upsert_job call.  up_first records, per row, the first non-null
\* posted_at that a call touching the row supplied.
Upsert ==
    /\ up_n < MaxUpserts
    /\ \E d \in UpJobData :
        LET res == upsert_job(up_rows, d) IN
        /\ up_rows' = res.rows
        /\ up_first' =
              IF res.outcome = "insert" THEN Append(up_first, d.posted_at)
              ELSE IF res.outcome = "update" /\ up_first[res.row] = NoDate
                   THEN [up_first EXCEPT ![res.row] = d.posted_at]
              ELSE up_first
        /\ up_last' = <<[data |-> d, outcome |-> res.outcome, row |-> res.row]>>
    /\ up_n' = up_n + 1
    /\ UNCHANGED <<ddVars, clVars, plVars, dtVars, svVars>>

UpsertNext == Upsert

SpecUpsert == UpsertInit /\ [][UpsertNext]_vars

\* C5: after any sequence of upsert_job calls, every row's stored posted_at
\* is the first non-null posted_at ever supplied for that row (null if none
\* was); later calls carrying another date, or none, leave it unchanged.
C5_PostedAtFirstWins ==
    /\ Len(up_first) = Len(up_rows)
    /\ \A i \in 1..Len(up_rows) : up_rows[i].posted_at = up_first[i]

\* The last call updated an existing row, supplied a date different from the
\* stored one and a different title: the title changed, the date did not.
C5_Witness ==
    /\ up_last # <<>>
    /\ up_last[1].outcome = "update"
    /\ up_last[1].data.posted_at # NoDate
    /\ up_rows[up_last[1].row].posted_at # NoDate
    /\ up_rows[up_last[1].row].posted_at # up_last[1].data.posted_at
    /\ up_rows[up_last[1].row].title = up_last[1].data.title
    /\ up_n = 3

(***************************************************************************)
(* Ranking runs: main from the end of the enrichment passes to the output  *)
(* payload, over every short list of records and a range of command lines. *)
(***************************************************************************)
MaxRankJobs == 3

\* datetime.now(timezone.utc) of the run
Now == DateTime(2025, 9, 18, 15)

NormalizedJob(title, url, description_snippet, location, posted_at, source) ==
    [title |-> title, company |-> "Acme", url |-> url, source |-> source,
     location |-> location, posted_at |-> posted_at,
     description_snippet |-> description_snippet, level |-> None]

RankJobs == {
    NormalizedJob("Software Engineer", "u/1", None, None, NoDate, "greenhouse"),
    NormalizedJob("Software Engineer", "u/1", "python sql", "Remote - US", At(Now - 48), "greenhouse"),
    NormalizedJob("software engineer", "U/1", "Python", None, NoDate, "lever"),
    NormalizedJob("Office Assistant", "u/2", "sql", None, NoDate, "greenhouse"),
    NormalizedJob("Backend Engineer", "u/1", "sql", None, NoDate, "lever"),
    NormalizedJob("Senior Software Engineer", "", "python", "London, UK", At(Now - 960), "lever") }

Args(junior_only, relax, us_remote_only, recent_days, require_date, skills_any, skills_all, skills_hard, min_score) ==
    [junior_only |-> junior_only, relax |-> relax, us_remote_only |-> us_remote_only,
     recent_days |-> recent_days, require_date |-> require_date,
     skills_any |-> skills_any, skills_all |-> skills_all,
     skills_hard |-> skills_hard, min_score |-> min_score]

\* every skills configuration with the gates off, and each gate with one
\* skills configuration
RankArgs ==
    {Args(FALSE, FALSE, FALSE, 0, FALSE, any, all, hard, k) :
        any \in {{}, {"python"}, {"python", "sql"}}, all \in {{}, {"sql"}},
        hard \in BOOLEAN, k \in 0..2}
    \cup {Args(TRUE, r, FALSE, 0, FALSE, {"python"}, {}, FALSE, 0) : r \in BOOLEAN}
    \cup {Args(FALSE, FALSE, TRUE, 0, FALSE, {"python"}, {}, FALSE, 0),
          Args(FALSE, FALSE, FALSE, 14, FALSE, {"python"}, {}, FALSE, 0),
          Args(FALSE, FALSE, FALSE, 14, TRUE, {"python"}, {}, FALSE, 0),
          Args(FALSE, FALSE, FALSE, 0, FALSE, {"python"}, {}, FALSE, -1),
          Args(TRUE, TRUE, TRUE, 14, TRUE, {"python"}, {}, TRUE, 1)}

RankInit ==
    /\ pl_pc = "enriched"
    /\ args \in RankArgs
    /\ all_jobs \in SeqsUpTo(RankJobs, MaxRankJobs)
    /\ enIdle /\ rkIdle
    /\ ddIdle /\ clIdle /\ upIdle /\ ftIdle /\ dtIdle /\ svIdle

\* (mutation: the filter-and-score loop runs as soon as the fetch is done)
FilterAndScore_AfterFetch ==
    /\ pl_pc \in {"fetched", "enriched"}
    /\ pl_pc' = "scored"
    /\ scored' = ScoreLoop(all_jobs, 1, args, Now, <<>>)
    /\ scored_log' = <<scored'>>
    /\ UNCHANGED <<args, enVars, filtered, score_by_url, rank_by_url, unique, payload>>
    /\ UNCHANGED <<ddVars, clVars, upVars, ftVars, dtVars, svVars>>

\* lines 817-864
FilterAndScore ==
    /\ pl_pc = "enriched"
    /\ pl_pc' = "scored"
    /\ scored' = ScoreLoop(all_jobs, 1, args, Now, <<>>)
    /\ scored_log' = <<scored'>>
    /\ UNCHANGED <<args, enVars, filtered, score_by_url, rank_by_url, unique, payload>>
    /\ UNCHANGED <<ddVars, clVars, upVars, ftVars, dtVars, svVars>>

\* lines 866-872
Threshold ==
    /\ pl_pc = "scored"
    /\ pl_pc' = "thresholded"
    /\ scored' = ApplyMinScore(scored, args.min_score)
    /\ scored_log' = Append(scored_log, scored')
    /\ UNCHANGED <<args, enVars, filtered, score_by_url, rank_by_url, unique, payload>>
    /\ UNCHANGED <<ddVars, clVars, upVars, ftVars, dtVars, svVars>>

\* lines 874-876
Sort ==
    /\ pl_pc = "thresholded"
    /\ pl_pc' = "sorted"
    /\ scored' = SortByScore(scored)
    /\ filtered' = Filtered(scored')
    /\ UNCHANGED <<args, enVars, scored_log, score_by_url, rank_by_url, unique, payload>>
    /\ UNCHANGED <<ddVars, clVars, upVars, ftVars, dtVars, svVars>>

\* lines 878-889
MapRanks ==
    /\ pl_pc = "sorted"
    /\ pl_pc' = "ranked"
    /\ LET maps == RankLoop(all_jobs, scored, 1, <<>>, <<>>) IN
        /\ score_by_url' = maps[1]
        /\ rank_by_url' = maps[2]
    /\ UNCHANGED <<args, enVars, scored, scored_log, filtered, unique, payload>>
    /\ UNCHANGED <<ddVars, clVars, upVars, ftVars, dtVars, svVars>>

\* line 891
Dedupe ==
    /\ pl_pc = "ranked"
    /\ pl_pc' = "deduplicated"
    /\ unique' = dedupe(all_jobs, filtered)
    /\ UNCHANGED <<args, enVars, scored, scored_log, filtered, score_by_url, rank_by_url, payload>>
    /\ UNCHANGED <<ddVars, clVars, upVars, ftVars, dtVars, svVars>>

\* lines 924-941
Output ==
    /\ pl_pc = "deduplicated"
    /\ pl_pc' = "output"
    /\ payload' = Payload(all_jobs, unique, score_by_url, rank_by_url)
    /\ UNCHANGED <<args, enVars, scored, scored_log, filtered, score_by_url, rank_by_url, unique>>
    /\ UNCHANGED <<ddVars, clVars, upVars, ftVars, dtVars, svVars>>

RankNext == FilterAndScore \/ Threshold \/ Sort \/ MapRanks \/ Dedupe \/ Output

SpecRank == RankInit /\ [][RankNext]_vars

\* position of record `ref` in a list of (score, record) pairs (0 if absent)
PosOf(pairs, ref) ==
    IF \E n \in 1..Len(pairs) : pairs[n][2] = ref
    THEN CHOOSE n \in 1..Len(pairs) : pairs[n][2] = ref
    ELSE 0

Refs(pairs) == {pairs[n][2] : n \in 1..Len(pairs)}

\* the positions at which `url` occurs in the sorted sequence, and the
\* scores it occurs with
Occurrences(url) == {n \in 1..Len(scored) : all_jobs[scored[n][2]].url = url}
OccurrenceScores(url) == {scored[n][1] : n \in Occurrences(url)}
FirstOccurrence(url) == CHOOSE n \in Occurrences(url) : \A m \in Occurrences(url) : n <= m
MaxScore(url) == CHOOSE x \in OccurrenceScores(url) : \A y \in OccurrenceScores(url) : y <= x

\* C6 (as amended): walking the sorted, thresholded sequence, every non-empty
\* URL gets as rank the 1-based position of its first occurrence and as
\* score the maximum score over its occurrences; every output record with a
\* non-empty URL carries the rank and score of its URL (also when the
\* record that survived deduplication is a lower-scoring occurrence), and an
\* output record whose URL is empty carries skill_score 0 and no rank.
C6_RankAndScoreOfUrl ==
    pl_pc \in {"ranked", "deduplicated", "output"} =>
        LET urls == {all_jobs[r].url : r \in Refs(scored)} \ {""} IN
        /\ {rank_by_url[n][1] : n \in 1..Len(rank_by_url)} = urls
        /\ {score_by_url[n][1] : n \in 1..Len(score_by_url)} = urls
        /\ Len(rank_by_url) = Cardinality(urls)
        /\ Len(score_by_url) = Cardinality(urls)
        /\ \A n \in 1..Len(rank_by_url) :
               rank_by_url[n][2] = FirstOccurrence(rank_by_url[n][1])
        /\ \A n \in 1..Len(score_by_url) :
               score_by_url[n][2] = MaxScore(score_by_url[n][1])
        /\ pl_pc = "output" =>
               /\ Len(payload) = Len(unique)
               /\ \A n \in 1..Len(payload) :
                      LET url == all_jobs[payload[n].ref].url IN
                      /\ payload[n].ref = unique[n]
                      /\ IF url # ""
                         THEN /\ payload[n].rank = <<FirstOccurrence(url)>>
                              /\ payload[n].skill_score = MaxScore(url)
                         ELSE /\ payload[n].rank = NoRank
                              /\ payload[n].skill_score = 0

\* An output record that survived deduplication although a higher-scoring
\* record of the same URL was ranked before it: it carries that record's
\* score and rank, not its own.
C6_Witness ==
    /\ pl_pc = "output"
    /\ \E n \in 1..Len(payload) :
           LET own == PosOf(scored, payload[n].ref) IN
           /\ all_jobs[payload[n].ref].url # ""
           /\ payload[n].skill_score > scored[own][1]
           /\ payload[n].rank # NoRank
           /\ payload[n].rank[1] < own

\* C6 (as stated): every output record is emitted with the rank (position of
\* the first occurrence) and the score (maximum over the occurrences) of its
\* URL.
C6_EveryOutputRecordHasUrlRank ==
    pl_pc = "output" =>
        \A n \in 1..Len(payload) :
            LET url == all_jobs[payload[n].ref].url IN
            /\ payload[n].rank = <<FirstOccurrence(url)>>
            /\ payload[n].skill_score = MaxScore(url)

\* C7: after the sort the scored sequence holds the same pairs as before it,
\* in non-increasing order of score, and two pairs of equal score are in the
\* order they had entering the sort.
C7_SortedStable ==
    pl_pc \in {"sorted", "ranked", "deduplicated", "output"} =>
        LET before == scored_log[2] IN
        /\ Len(scored) = Len(before)
        /\ Refs(scored) = Refs(before)
        /\ \A n \in 1..Len(scored) : scored[n] = before[PosOf(before, scored[n][2])]
        /\ \A n \in 1..(Len(scored) - 1) : scored[n][1] >= scored[n + 1][1]
        /\ \A a, b \in 1..Len(before) :
               (a < b /\ before[a][1] = before[b][1])
                   => PosOf(scored, before[a][2]) < PosOf(scored, before[b][2])
        /\ filtered = [n \in 1..Len(scored) |-> scored[n][2]]

\* The sort moved a record forward past two records of equal score, which
\* kept their order.
C7_Witness ==
    /\ pl_pc = "sorted"
    /\ Len(scored) = 3
    /\ scored[1] = scored_log[2][3]
    /\ scored[2] = scored_log[2][1]
    /\ scored[3] = scored_log[2][2]
    /\ scored[2][1] = scored[3][1]
    /\ scored[1][1] > scored[2][1]

\* C8: the threshold removes exactly the pairs whose score is below
\* min_score and keeps the others in order; min_score = 0 leaves the scored
\* list unchanged; a record it removed is never ranked and never output.
C8_MinScoreThreshold ==
    pl_pc \notin {"enriched", "scored"} =>
        LET before  == scored_log[1]
            after   == scored_log[2]
            removed == Refs(before) \ Refs(after)
        IN
        /\ after = SelectSeq(before, LAMBDA t : ~(t[1] < args.min_score))
        /\ args.min_score = 0 => after = before
        /\ removed = {before[n][2] : n \in {m \in 1..Len(before) : before[m][1] < args.min_score}}
        /\ Refs(scored) \cap removed = {}
        /\ \A n \in 1..Len(rank_by_url) :
               /\ rank_by_url[n][2] \in 1..Len(scored)
               /\ scored[rank_by_url[n][2]][2] \notin removed
        /\ \A n \in 1..Len(filtered) : filtered[n] \notin removed
        /\ \A n \in 1..Len(unique) : unique[n] \notin removed
        /\ \A n \in 1..Len(payload) : payload[n].ref \notin removed

\* A run with min_score = 2 in which the threshold removed a record and kept
\* another, which was output with a rank.
C8_Witness ==
    /\ pl_pc = "output"
    /\ args.min_score = 2
    /\ Refs(scored_log[1]) \ Refs(scored_log[2]) # {}
    /\ payload # <<>>
    /\ \E n \in 1..Len(payload) : payload[n].rank # NoRank

\* C9 (as stated): in hard-gate mode, whatever the any/all term lists are
\* (empty lists included), no record with skill score 0 is in the scored
\* set, and no record missing a configured `all` term is.
C9_HardGateDropsZeroScore ==
    (pl_pc # "enriched" /\ args.skills_hard) =>
        \A n \in 1..Len(scored_log[1]) :
            /\ scored_log[1][n][1] # 0
            /\ \A t \in args.skills_all : Contains(Hay(all_jobs[scored_log[1][n][2]]), t)

\* C10 (as stated): in soft mode, of two records with engineering titles that
\* pass the gates, one containing a term of the `any` list and one containing
\* none, both are kept, the one containing the term has the strictly higher
\* score and it comes first in the sorted sequence, whatever the input order.
C10_SoftModeTermRecordFirst ==
    (pl_pc \in {"sorted", "ranked", "deduplicated", "output"}
        /\ ~args.skills_hard /\ args.min_score <= 0) =>
        \A i, j \in 1..Len(all_jobs) :
            (/\ PassesGates(all_jobs[i], args, Now) /\ PassesGates(all_jobs[j], args, Now)
             /\ looks_like_engineering(all_jobs[i].title)
             /\ looks_like_engineering(all_jobs[j].title)
             /\ \E t \in args.skills_any : Contains(Hay(all_jobs[i]), t)
             /\ ~\E t \in args.skills_any : Contains(Hay(all_jobs[j]), t))
            => /\ i \in Refs(scored) /\ j \in Refs(scored)
               /\ scored[PosOf(scored, i)][1] > scored[PosOf(scored, j)][1]
               /\ PosOf(scored, i) < PosOf(scored, j)

(***************************************************************************)
(* Enrichment runs: main from the end of the fetch to the end of the three *)
(* passes (lines 734-757).  Futures complete in any order, each with any   *)
(* of the page texts.                                                      *)
(***************************************************************************)
MaxEnrichJobs == 2

EnrichJobs == {
    NormalizedJob("Software Engineer", "u/1", None, "Remote - US", NoDate, "greenhouse"),
    NormalizedJob("Junior Developer", "u/2", "  ", None, At(Now - 960), "Lever"),
    NormalizedJob("Office Assistant", "u/3", None, None, At(Now - 48), "greenhouse"),
    NormalizedJob("Senior Software Engineer", "u/4", "Posted 3 days ago", "London, UK", NoDate, ""),
    NormalizedJob("Software Engineer", "", None, None, NoDate, "greenhouse"),
    NormalizedJob("Data Engineer", "u/5", "Great team", None, At(Now - 24), "lever") }

\* what a request for a posting's page returns as text ("": it failed)
Pages == {"", "Junior role sql", "Posted 5 days ago"}

Environ(junior_cap, desc_cap, greenhouse_cap, lever_cap, max_chars, backfill_cap) ==
    [RADAR_JUNIOR_TOPUP_CAP |-> junior_cap, RADAR_DESC_CAP |-> desc_cap,
     RADAR_DESC_CAP_GREENHOUSE |-> greenhouse_cap, RADAR_DESC_CAP_LEVER |-> lever_cap,
     RADAR_DESC_MAX_CHARS |-> max_chars, RADAR_DATE_BACKFILL_CAP |-> backfill_cap]

Environs == {
    Environ(None, None, None, None, None, None),
    Environ("1", "1", None, None, "6", "1"),
    Environ("0", "0", "2", None, "-3", "abc"),
    Environ("", "", "x", "1", None, "0") }

EnrichArgs == {
    Args(FALSE, FALSE, FALSE, 0, FALSE, {}, {}, FALSE, 0),
    Args(TRUE, TRUE, FALSE, 0, FALSE, {}, {}, FALSE, 0),
    Args(FALSE, FALSE, TRUE, 0, FALSE, {}, {}, FALSE, 0),
    Args(FALSE, FALSE, FALSE, 14, FALSE, {}, {}, FALSE, 0) }

EnrichInit ==
    /\ pl_pc = "fetched"
    /\ args \in EnrichArgs
    /\ env \in Environs
    /\ all_jobs \in SeqsUpTo(EnrichJobs, MaxEnrichJobs)
    /\ futs = {} /\ pass_log = <<>>
    /\ rkIdle
    /\ ddIdle /\ clIdle /\ upIdle /\ ftIdle /\ dtIdle /\ svIdle

\* a pass starts: it selects its plan and submits one future per record
StartPass(name, plan, submitted) ==
    /\ pl_pc' = name
    /\ futs' = submitted
    /\ pass_log' = Append(pass_log, [pass |-> name, jobs |-> all_jobs, plan |-> plan])
    /\ UNCHANGED <<args, env, all_jobs, rkVars>>
    /\ UNCHANGED <<ddVars, clVars, upVars, ftVars, dtVars, svVars>>

\* lines 735-740 and 61-132
JuniorTopUpStart ==
    /\ pl_pc = "fetched"
    /\ LET plan == junior_plan(all_jobs, args, env, Now) IN
       StartPass("junior_top_up", plan, SeqToSet(plan))

\* lines 133-148: one future of the junior top-up completes
JuniorTopUpComplete ==
    /\ pl_pc = "junior_top_up"
    /\ \E n \in futs, page \in Pages :
        /\ all_jobs' = [all_jobs EXCEPT ![n] = AttachSnippet(@, fetch_and_trim(page, env))]
        /\ futs' = futs \ {n}
    /\ UNCHANGED <<pl_pc, args, env, pass_log, rkVars>>
    /\ UNCHANGED <<ddVars, clVars, upVars, ftVars, dtVars, svVars>>

\* (mutation: the description top-up starts while futures of the junior
\* top-up are still running)
TopUpStart_Overlapping ==
    /\ pl_pc = "junior_top_up"
    /\ LET plan == top_up_plan(all_jobs, args, env, Now) IN
       StartPass("top_up", plan, {n \in SeqToSet(plan) : Truthy(all_jobs[n].url)})

\* lines 748-754 and 191-247
TopUpStart ==
    /\ pl_pc = "junior_top_up" /\ futs = {}
    /\ LET plan == top_up_plan(all_jobs, args, env, Now) IN
       StartPass("top_up", plan, {n \in SeqToSet(plan) : Truthy(all_jobs[n].url)})

\* lines 248-259: one future of the description top-up completes
TopUpComplete ==
    /\ pl_pc = "top_up"
    /\ \E n \in futs, page \in Pages :
        /\ all_jobs' = [all_jobs EXCEPT ![n] = AttachSnippet(@, fetch_and_trim(page, env))]
        /\ futs' = futs \ {n}
    /\ UNCHANGED <<pl_pc, args, env, pass_log, rkVars>>
    /\ UNCHANGED <<ddVars, clVars, upVars, ftVars, dtVars, svVars>>

\* lines 757 and 321-351
BackfillStart ==
    /\ pl_pc = "top_up" /\ futs = {}
    /\ LET targets == backfill_targets(all_jobs, env) IN
       StartPass("backfill", targets, SeqToSet(targets))

\* lines 352-370: one future of the date backfill completes
BackfillComplete ==
    /\ pl_pc = "backfill"
    /\ \E n \in futs, page \in Pages :
        /\ all_jobs' = [all_jobs EXCEPT
                           ![n] = AttachPostedAt(@, fetch_text_for(@, page), Now)]
        /\ futs' = futs \ {n}
    /\ UNCHANGED <<pl_pc, args, env, pass_log, rkVars>>
    /\ UNCHANGED <<ddVars, clVars, upVars, ftVars, dtVars, svVars>>

\* line 374: the last pass returns
EnrichDone ==
    /\ pl_pc = "backfill" /\ futs = {}
    /\ pl_pc' = "enriched"
    /\ UNCHANGED <<args, enVars, rkVars>>
    /\ UNCHANGED <<ddVars, clVars, upVars, ftVars, dtVars, svVars>>

EnrichNext ==
    \/ JuniorTopUpStart \/ JuniorTopUpComplete
    \/ TopUpStart \/ TopUpComplete
    \/ BackfillStart \/ BackfillComplete
    \/ EnrichDone

SpecEnrich == EnrichInit /\ [][EnrichNext]_vars

\* a text field that is set: not None and not blank
IsSet(x) == x # None /\ strip(x) # ""

\* all_jobs as the k-th pass left it (the current list while it still runs)
AfterPass(k) == IF k < Len(pass_log) THEN pass_log[k + 1].jobs ELSE all_jobs

\* C4: for each of the three passes, a description_snippet, posted_at or level
\* that was set when the pass selected its candidates has the same value
\* while and after the pass runs; whatever field differs was null or blank
\* at that moment.  No pass adds, removes or reorders records.
C4_PassesOnlyFillBlanks ==
    \A k \in 1..Len(pass_log) :
        LET before == pass_log[k].jobs
            after  == AfterPass(k)
        IN  /\ Len(after) = Len(before)
            /\ \A n \in 1..Len(before) :
                /\ IsSet(before[n].description_snippet)
                       => after[n].description_snippet = before[n].description_snippet
                /\ before[n].posted_at # NoDate => after[n].posted_at = before[n].posted_at
                /\ IsSet(before[n].level) => after[n].level = before[n].level
                /\ after[n].description_snippet # before[n].description_snippet
                       => ~IsSet(before[n].description_snippet)
                /\ after[n].posted_at # before[n].posted_at => before[n].posted_at = NoDate
                /\ after[n].level = before[n].level

\* A finished run in which each of the three passes assigned a field, and a
\* record that came with a date but no snippet was given a snippet that
\* states another date and still has the date it came with.
C4_Witness ==
    /\ pl_pc = "enriched"
    /\ Len(pass_log) = 3
    /\ \A k \in 1..3 : AfterPass(k) # pass_log[k].jobs
    /\ \E n \in 1..Len(all_jobs) :
        /\ pass_log[1].jobs[n].posted_at # NoDate
        /\ pass_log[1].jobs[n].description_snippet = None
        /\ all_jobs[n].description_snippet = "Posted 5 days ago"
        /\ all_jobs[n].posted_at = pass_log[1].jobs[n].posted_at
        /\ all_jobs[n].posted_at # At(Now - 120)

(***************************************************************************)
(* Gate runs: main from the end of the enrichment passes to the output     *)
(* payload on a single record, over titles, locations and descriptions     *)
(* that exercise the basic filter and the US-remote gate (lines 821-825),  *)
(* with every combination of --junior-only, --us-remote-only and --relax.  *)
(***************************************************************************)
GateTitles == {
    "Senior Software Engineer", "Sr. Software Engineer", "Software Engineer, Sr",
    "Sr Software Engineer", "Staff Engineer", "Associate Software Engineer",
    "Software Engineer", "Engineer", "Office Assistant", "" }

GateLocations == {
    None, "", "Remote - US", "London, UK", "Remote, Canada", "Remote - US or Canada",
    "New York, NY" }

GateDescs == { None, "Remote, United States", "Remote in Europe", "New grad role" }

GateJobs ==
    {NormalizedJob(t, "u/1", d, l, NoDate, "greenhouse") :
        t \in GateTitles, l \in GateLocations, d \in GateDescs}

GateArgs ==
    {Args(j, r, u, 0, FALSE, {}, {}, FALSE, 0) : j \in BOOLEAN, r \in BOOLEAN, u \in BOOLEAN}

GateInit ==
    /\ pl_pc = "enriched"
    /\ args \in GateArgs
    /\ all_jobs \in {<<j>> : j \in GateJobs}
    /\ enIdle /\ rkIdle
    /\ ddIdle /\ clIdle /\ upIdle /\ ftIdle /\ dtIdle /\ svIdle

SpecGate == GateInit /\ [][RankNext]_vars

\* the records the loop of lines 821-864 kept (BASIC-FILTERED), once it ran
BasicFiltered == IF pl_pc = "enriched" THEN {} ELSE Refs(scored_log[1])

\* the records of the output payload
InOutput == {payload[k].ref : k \in 1..Len(payload)}

\* location is None or ""
LocationMissing(j) == ~Truthy(j.location)

\* the location names one of the non-US countries, regions or cities that
\* looks_remote_us lists
HasNonUsToken(location) ==
    Truthy(location) /\ ContainsAny(lower(location), NON_US_MARKERS)

\* C11 (as stated): with junior_only set, no record whose title matches the
\* senior block of the classifiers (senior, sr / sr., staff, principal, lead,
\* manager, architect) passes the basic filter or is in the output.
C11_JuniorOnlyBlocksSeniorTitles ==
    args.junior_only =>
        \A n \in 1..Len(all_jobs) :
            SearchI(SENIOR_BLOCK, OrEmpty(all_jobs[n].title))
                => n \notin BasicFiltered /\ n \notin InOutput

\* C12 (as stated): a record whose location names a non-US country or city
\* never passes the US-remote gate (looks_remote_us is false for it),
\* whether or not the location says remote and whatever the description says.
C12_NonUsLocationIsHardBlock ==
    (pl_pc # "enriched" /\ args.us_remote_only) =>
        \A n \in 1..Len(all_jobs) :
            HasNonUsToken(all_jobs[n].location)
                => /\ ~looks_remote_us(all_jobs[n].location, all_jobs[n].description_snippet)
                   /\ n \notin BasicFiltered

\* C13 (as stated): when junior_only or us_remote_only is requested, every
\* record that passes the basic filter has a title that passes
\* looks_like_engineering.
C13_RequestedGateImpliesEngineering ==
    (args.junior_only \/ args.us_remote_only) =>
        \A n \in BasicFiltered : looks_like_engineering(all_jobs[n].title)

\* C14 (as stated): with us_remote_only set, a record whose location is null
\* or empty is not dropped by the US-remote gate: if it passes the other
\* gates of the basic filter it is kept.
C14_MissingLocationNotBlocked ==
    (pl_pc # "enriched" /\ args.us_remote_only) =>
        \A n \in 1..Len(all_jobs) :
            (LocationMissing(all_jobs[n])
                /\ matches_basic(all_jobs[n], args.junior_only, args.relax, TRUE))
            => n \in BasicFiltered

(***************************************************************************)
(* job_radar.py: the fetch fan-out of main (lines 695-721).  A company     *)
(* entry carries what its provider's fetch does in this run: it raises, or *)
(* it returns a list of records.                                           *)
(***************************************************************************)
\* the keys of radar.providers.REGISTRY
PROVIDER_REGISTRY == {"greenhouse", "lever", "workday"}

Company(name, provider, raises, jobs) ==
    [company |-> name, provider |-> provider, raises |-> raises, jobs |-> jobs]

\* lines 696-707: the (provider, company) tasks, in the order of `companies`
build_tasks(companies, enabled_providers) ==
    SelectSeq(companies,
              LAMBDA company :
                  LET provider_key == lower(OrEmpty(company.provider)) IN
                  /\ provider_key # ""
                  /\ provider_key \in PROVIDER_REGISTRY
                  /\ provider_key \in enabled_providers)

\* (mutation: a task that raises discards what was gathered before it)
extend_or_skip_DiscardsOnError(jobs, task) ==
    IF task.raises THEN <<>> ELSE jobs \o task.jobs

\* lines 716-721: all_jobs after the result of one completed future was taken
extend_or_skip(jobs, task) ==
    IF task.raises THEN jobs ELSE jobs \o task.jobs

(***************************************************************************)
(* Batch runs: main from the task list to the output payload (lines        *)
(* 695-941): fetch fan-out, the three enrichment passes, filter and score, *)
(* threshold, sort, rank maps, dedupe, payload.                            *)
(***************************************************************************)
MaxCompanies == 2

PipeJobA == NormalizedJob("Software Engineer", "u/1", None, None, NoDate, "greenhouse")
PipeJobB == NormalizedJob("Junior Developer", "u/2", None, "Remote - US", At(Now - 48), "lever")

Companies == {
    Company("Acme", "greenhouse", TRUE, <<>>),
    Company("Acme", "Greenhouse", FALSE, <<PipeJobA>>),
    Company("Bolt", "lever", FALSE, <<PipeJobB>>),
    Company("Cask", "myats", FALSE, <<PipeJobA>>),
    Company("Dune", None, FALSE, <<PipeJobB>>) }

\* --providers all, and --providers greenhouse
EnabledProviders == {PROVIDER_REGISTRY, {"greenhouse"}}

PipeArgs == {
    Args(FALSE, FALSE, FALSE, 0, FALSE, {}, {}, FALSE, 0),
    Args(FALSE, FALSE, FALSE, 14, TRUE, {}, {}, FALSE, 0) }

\* RADAR_JUNIOR_TOPUP_CAP=1 RADAR_DESC_CAP=1 RADAR_DATE_BACKFILL_CAP=1: each
\* pass fetches for at most one record (per provider, for the description
\* top-up)
PipeEnv == Environ("1", "1", None, None, None, "1")

PipeInit ==
    /\ pl_pc = "start"
    /\ args \in PipeArgs
    /\ env = PipeEnv
    /\ \E companies \in SeqsUpTo(Companies, MaxCompanies), enabled \in EnabledProviders :
           tasks = build_tasks(companies, enabled)
    /\ fetch_futs = {} /\ fetch_log = <<>>
    /\ all_jobs = <<>> /\ futs = {} /\ pass_log = <<>>
    /\ rkIdle
    /\ ddIdle /\ clIdle /\ upIdle /\ dtIdle /\ svIdle

\* lines 711-715: one future per task is submitted
FetchSubmit ==
    /\ pl_pc = "start"
    /\ pl_pc' = "fetching"
    /\ fetch_futs' = 1..Len(tasks)
    /\ UNCHANGED <<args, enVars, rkVars, tasks, fetch_log>>
    /\ UNCHANGED <<ddVars, clVars, upVars, dtVars, svVars>>

\* lines 716-721: as_completed yields one more future
FetchComplete ==
    /\ pl_pc = "fetching"
    /\ \E n \in fetch_futs :
        /\ all_jobs' = extend_or_skip(all_jobs, tasks[n])
        /\ fetch_futs' = fetch_futs \ {n}
        /\ fetch_log' = Append(fetch_log, n)
    /\ UNCHANGED <<pl_pc, args, env, futs, pass_log, rkVars, tasks>>
    /\ UNCHANGED <<ddVars, clVars, upVars, dtVars, svVars>>

\* line 721: every future was yielded, the executor shuts down
FetchDone ==
    /\ pl_pc = "fetching" /\ fetch_futs = {}
    /\ pl_pc' = "fetched"
    /\ UNCHANGED <<args, enVars, rkVars, ftVars>>
    /\ UNCHANGED <<ddVars, clVars, upVars, dtVars, svVars>>

FetchNext == FetchSubmit \/ FetchComplete \/ FetchDone

PipeNext == FetchNext \/ EnrichNext \/ RankNext

SpecPipeline == PipeInit /\ [][PipeNext]_vars

\* between the fetch and the output the main thread runs sequential code and
\* waits only for futures of its own pools, each of which completes: a run
\* that stays in these stages keeps taking steps
MainThreadRunsOn ==
    \/ []<>(pl_pc \in {"start", "fetching", "output"})
    \/ []<><<EnrichNext \/ RankNext>>_vars

\* every fetch future completes (the pool runs each submitted task until it
\* returns or raises) and is yielded by as_completed
FairSpecPipeline == SpecPipeline /\ WF_vars(FetchNext) /\ MainThreadRunsOn

\* the fetch is over: every submitted future was yielded
FetchOver == pl_pc \notin {"start", "fetching"} /\ fetch_futs = {}

\* the three enrichment passes have started and every future of theirs
\* has completed
EnrichmentOver == Len(pass_log) = 3 /\ futs = {}

\* C15 (as stated): the stages occur in the order FETCHED, BASIC-FILTERED,
\* ENRICHED, SCORED, THRESHOLDED, DEDUPLICATED, OUTPUT: when an enrichment
\* pass selects, fetches for or mutates records the fetch is over and the
\* basic filter gates have already been evaluated, and deduplication runs
\* only after scoring and thresholding.
C15_FilterBeforeEnrichment ==
    /\ pass_log # <<>> => FetchOver /\ scored_log # <<>>
    /\ pl_pc \in {"deduplicated", "output"} => Len(scored_log) = 2

\* C15 (amended): the stages occur in the order FETCHED, ENRICHED,
\* BASIC-FILTERED and SCORED (one loop), THRESHOLDED, DEDUPLICATED, OUTPUT.
\* The enrichment passes run on the fetched records once the fetch is over;
\* the basic filter gates are evaluated only after the three passes have
\* completed, on the records as the passes left them; deduplication runs
\* only after scoring and thresholding, on records that passed both, and the
\* output holds exactly the deduplicated records.
C15_EnrichmentBeforeFilter ==
    /\ pass_log # <<>> => FetchOver
    /\ scored_log # <<>> =>
           /\ EnrichmentOver
           /\ scored_log[1] = ScoreLoop(all_jobs, 1, args, Now, <<>>)
    /\ Len(scored_log) = 2 => scored_log[2] = ApplyMinScore(scored_log[1], args.min_score)
    /\ pl_pc \in {"deduplicated", "output"} =>
           /\ Len(scored_log) = 2
           /\ SeqToSet(unique) \subseteq Refs(scored_log[2])
    /\ pl_pc \notin {"deduplicated", "output"} => unique = <<>>
    /\ IF pl_pc = "output"
       THEN [k \in 1..Len(payload) |-> payload[k].ref] = unique
       ELSE payload = <<>>

\* A finished run whose output holds a record that the gates would have
\* dropped as it was fetched (no date, with --require-date) and kept because
\* the date backfill gave it a recent posted_at before the gates ran.
C15_Witness ==
    /\ pl_pc = "output"
    /\ \E k \in 1..Len(payload) :
        LET n == payload[k].ref IN
        /\ ~PassesGates(pass_log[1].jobs[n], args, Now)
        /\ PassesGates(all_jobs[n], args, Now)
        /\ pass_log[1].jobs[n].posted_at = NoDate
        /\ all_jobs[n].posted_at = At(Now - 120)

\* the records of the successful tasks among log[k..], in that order
RECURSIVE SuccessfulResults(_, _, _)
SuccessfulResults(ts, log, k) ==
    IF k > Len(log) THEN <<>>
    ELSE (IF ts[log[k]].raises THEN <<>> ELSE ts[log[k]].jobs)
             \o SuccessfulResults(ts, log, k + 1)

\* C16: whichever tasks raise, every task is run to completion exactly once,
\* the fetched list is exactly the results of the successful tasks (in
\* completion order), the three passes leave the number of records as it
\* is, a run in which every task raises or no task was built ends with an
\* empty output, and every run reaches the output.
C16_FetchFailureIsolation ==
    /\ [](/\ Len(fetch_log) + Cardinality(fetch_futs)
                 = (IF pl_pc = "start" THEN 0 ELSE Len(tasks))
          /\ \A n \in 1..Len(tasks) :
                 Cardinality({k \in 1..Len(fetch_log) : fetch_log[k] = n})
                     = (IF pl_pc = "start" \/ n \in fetch_futs THEN 0 ELSE 1)
          /\ pl_pc # "fetching" => fetch_futs = {}
          /\ pl_pc \in {"fetching", "fetched"}
                 => all_jobs = SuccessfulResults(tasks, fetch_log, 1)
          /\ Len(all_jobs) = Len(SuccessfulResults(tasks, fetch_log, 1))
          /\ (pl_pc = "output" /\ \A n \in 1..Len(tasks) : tasks[n].raises)
                 => all_jobs = <<>> /\ payload = <<>>)
    /\ <>(pl_pc = "output")

\* A finished run of two tasks in which the future that completed first
\* raised and the records of the other one are in the output.
C16_Witness ==
    /\ pl_pc = "output"
    /\ Len(tasks) = 2
    /\ tasks[fetch_log[1]].raises
    /\ ~tasks[fetch_log[2]].raises
    /\ Len(payload) = Len(tasks[fetch_log[2]].jobs)
    /\ payload # <<>>

(***************************************************************************)
(* radar/core/date_parse.py: parse_curated_date.  `now` is a record of     *)
(* year, month, day and hour (naive UTC); the patterns are used with       *)
(* .match and are anchored at both ends.                                   *)
(***************************************************************************)
MONTHS ==
    [jan |-> 1, feb |-> 2, mar |-> 3, apr |-> 4, may |-> 5, jun |-> 6, jul |-> 7,
     aug |-> 8, sep |-> 9, sept |-> 9, oct |-> 10, nov |-> 11, dec |-> 12]

WordCh == Set(WordChars)                    \* \w

\* ^(\d{4})-(\d{1,2})-(\d{1,2})$
CURATED_ISO_DATE ==
    Cat(<<Dig, Dig, Dig, Dig, Lit("-"), Dig, Opt(Dig), Lit("-"), Dig, Opt(Dig)>>)
\* ^(\w{3,})\s+(\d{1,2})$
MONTH_DAY == Cat(<<WordCh, WordCh, WordCh, Star(WordCh), Ws1, Dig, Opt(Dig)>>)
\* ^(\d+)\s*day[s]?\s*ago$ (re.I)
DAYS_AGO ==
    Cat(<<Dig, Star(Dig), Ws0, Lit("day"), Opt(Lit("s")), Ws0, Lit("ago")>>)
\* ^(\d+)([dhw])$ (re.I)
AGE_SHORT == Cat(<<Dig, Star(Dig), Set("dhw")>>)

\* pattern.match(s) is not None, for a pattern written ^...$
Match(r, s) == (Len(s) + 1) \in Ends(r, s, 1)

\* the last position of the run of characters of cs that starts at i
\* (i - 1 when there is none): where a greedy \d+, \w{3,} or \s+ stops
RECURSIVE SpanEnd(_, _, _)
SpanEnd(s, i, cs) ==
    IF i <= Len(s) /\ Ch(s, i) \in cs THEN SpanEnd(s, i + 1, cs) ELSE i - 1

\* s.strip(chars)
RECURSIVE lstrip_chars(_, _)
lstrip_chars(s, cs) ==
    IF s # "" /\ Ch(s, 1) \in cs THEN lstrip_chars(SubSeq(s, 2, Len(s)), cs) ELSE s
RECURSIVE rstrip_chars(_, _)
rstrip_chars(s, cs) ==
    IF s # "" /\ Ch(s, Len(s)) \in cs THEN rstrip_chars(SubSeq(s, 1, Len(s) - 1), cs) ELSE s
strip_chars(s, cs) == rstrip_chars(lstrip_chars(s, cs), cs)

\* the current time as hours since 1970-01-01T00:00
Hours(now) == DateTime(now.year, now.month, now.day, now.hour)

\* dt.replace(hour=0, minute=0, second=0, microsecond=0)
Midnight(t) == t - (t % 24)

\* datetime(year, month, day): <<t>>, or NoDate for a ValueError
datetime_or_none(year, month, day) ==
    IF year >= 1 /\ year <= 9999 THEN DateOrNone(year, month, day) ELSE NoDate

\* (mutation: the candidate of the current year is returned as it is)
month_day_date_NoRollback(now, month, day) ==
    datetime_or_none(now.year, month, day)

\* lines 55-65: the date of a month and a day given without a year
month_day_date(now, month, day) ==
    LET candidate == datetime_or_none(now.year, month, day) IN
    IF candidate = NoDate THEN NoDate
    ELSE IF candidate[1] - Hours(now) > 30 * 24
    THEN datetime_or_none(now.year - 1, month, day)
    ELSE candidate

\* parse_curated_date(text, now=now)
parse_curated_date(text, now) ==
    IF ~Truthy(text) THEN NoDate
    ELSE LET raw == strip(text)
             low == lower(raw)
         IN
    IF raw = "" THEN NoDate
    ELSE IF Match(CURATED_ISO_DATE, raw)
    THEN LET e == SpanEnd(raw, 6, DigitSet) IN
         datetime_or_none(ToInt(SubSeq(raw, 1, 4)), ToInt(SubSeq(raw, 6, e)),
                          ToInt(SubSeq(raw, e + 2, Len(raw))))
    ELSE IF Match(MONTH_DAY, raw)
    THEN LET e1 == SpanEnd(raw, 1, WordSet)
             e2 == SpanEnd(raw, e1 + 1, SpaceSet)
             month_name == strip_chars(Prefix(lower(SubSeq(raw, 1, e1)), 4), {".", " "})
             key == Prefix(month_name, 3)
             day == ToInt(SubSeq(raw, e2 + 1, Len(raw)))
         IN  IF key \notin DOMAIN MONTHS THEN NoDate
             ELSE month_day_date(now, MONTHS[key], day)
    ELSE IF Match(DAYS_AGO, low)
    THEN LET days == ToInt(SubSeq(raw, 1, SpanEnd(raw, 1, DigitSet))) IN
         At(Midnight(Hours(now) - 24 * days))
    ELSE IF Match(AGE_SHORT, low)
    THEN LET value == ToInt(SubSeq(raw, 1, Len(raw) - 1))
             unit  == Ch(low, Len(low))
         IN  IF unit = "d" THEN At(Midnight(Hours(now) - 24 * value))
             ELSE IF unit = "w" THEN At(Midnight(Hours(now) - 24 * 7 * value))
             ELSE At(Midnight(Hours(now)))
    ELSE NoDate

(***************************************************************************)
(* radar/core/github_dates.py: infer_posted_at.  A datetime is a record of *)
(* its wall-clock time (hours since 1970-01-01T00:00) and whether it       *)
(* carries a tzinfo.  A git context is NoCtx (None) or says, per getter,   *)
(* what the getter does: it returns None, it raises, or it returns a       *)
(* datetime.                                                               *)
(***************************************************************************)
NoCtx == [present |-> FALSE]

GitContext(merge, add, latest) ==
    [present |-> TRUE, get_pr_merge_date |-> merge, get_commit_add_date |-> add,
     get_latest_touch_date |-> latest]

ReturnsNone == [kind |-> "none", wall |-> 0, aware |-> FALSE]
Raises      == [kind |-> "raise", wall |-> 0, aware |-> FALSE]
Returns(wall, aware) == [kind |-> "datetime", wall |-> wall, aware |-> aware]

\* (mutation: the sources are tried in the opposite order)
GETTERS_LatestFirst == <<"get_latest_touch_date", "get_commit_add_date", "get_pr_merge_date">>

\* line 24: the getters, in the order they are tried
GETTERS == <<"get_pr_merge_date", "get_commit_add_date", "get_latest_touch_date">>

\* dt.replace(tzinfo=None) if dt.tzinfo else dt
naive(dt) == [wall |-> dt.wall, aware |-> FALSE]

\* lines 24-37: the loop from the k-th getter on; the result and the
\* getters called
RECURSIVE InferLoop(_, _, _)
InferLoop(ctx, k, calls) ==
    IF k > Len(GETTERS) THEN [result |-> NoDate, calls |-> calls]
    ELSE LET getter == GETTERS[k]
             dt     == IF ctx[getter].kind = "raise" THEN ReturnsNone ELSE ctx[getter]
         IN  IF dt.kind = "datetime"
             THEN [result |-> <<naive(dt)>>, calls |-> Append(calls, getter)]
             ELSE InferLoop(ctx, k + 1, Append(calls, getter))

\* infer_posted_at(job_key, ctx)
infer_posted_at(job_key, ctx) ==
    IF ~ctx.present THEN [result |-> NoDate, calls |-> <<>>]
    ELSE InferLoop(ctx, 1, <<>>)

(***************************************************************************)
(* radar/providers/github_curated.py: the date handling of _process_row in *)
(* fetch_curated_github_jobs (lines 622-646) for one parsed row.           *)
(***************************************************************************)
\* the first position >= i at which s has the character c (0 if none)
IndexFrom(s, c, i) ==
    IF \E k \in i..Len(s) : Ch(s, k) = c
    THEN CHOOSE k \in i..Len(s) : Ch(s, k) = c /\ \A m \in i..(k - 1) : Ch(s, m) # c
    ELSE 0

\* _LINK_RE = \[([^\]]+)\]\(([^)]+)\) matches at i: <<end of group 1, end of match>>
LinkAt(s, i) ==
    LET j == IndexFrom(s, "]", i + 1)
        k == IF j = 0 THEN 0 ELSE IndexFrom(s, ")", j + 2)
    IN  IF Ch(s, i) = "[" /\ j > i + 1 /\ j + 1 <= Len(s) /\ Ch(s, j + 1) = "("
           /\ k > j + 2
        THEN <<j - 1, k>> ELSE <<>>

\* _LINK_RE.sub(lambda m: m.group(1), s), from position i on
RECURSIVE sub_links(_, _)
sub_links(s, i) ==
    IF i > Len(s) THEN ""
    ELSE IF LinkAt(s, i) # <<>>
    THEN SubSeq(s, i + 1, LinkAt(s, i)[1]) \o sub_links(s, LinkAt(s, i)[2] + 1)
    ELSE Ch(s, i) \o sub_links(s, i + 1)

\* line 630
clean_candidate(candidate) == strip_chars(strip(sub_links(candidate, 1)), {"*", "_", " "})

\* lines 622-626: the truthy values of row.date, row.age, row.posted_at
date_candidates(row) ==
    SelectSeq(<<row.date, row.age, row.posted_at>>, LAMBDA val : Truthy(val))

\* lines 628-635: the first candidate that parses (NoDate if none does)
RECURSIVE scrape_date(_, _, _)
scrape_date(candidates, k, now) ==
    IF k > Len(candidates) THEN NoDate
    ELSE LET parsed_dt == parse_curated_date(clean_candidate(candidates[k]), now) IN
         IF parsed_dt # NoDate THEN parsed_dt
         ELSE scrape_date(candidates, k + 1, now)

\* a naive datetime record for a parsed date
AsDatetime(parsed_dt) ==
    IF parsed_dt = NoDate THEN NoDate ELSE <<[wall |-> parsed_dt[1], aware |-> FALSE]>>

\* (mutation: a row left without a date gets today's date)
undated_posted_at_Today(now) == <<[wall |-> Midnight(Hours(now)), aware |-> FALSE]>>

\* lines 637-646: what payload.get("posted_at") is for a row for which
\* neither the scrape nor the inference gave a date: the key is never set
undated_posted_at(now) == NoDate

\* lines 628-646: payload.get("posted_at") of the record appended for the row
row_posted_at(row, scrape_enabled, inference_enabled, git_ctx, now) ==
    LET scraped == IF scrape_enabled
                   THEN AsDatetime(scrape_date(date_candidates(row), 1, now))
                   ELSE NoDate
    IN  IF scraped # NoDate THEN scraped
        ELSE LET inferred_dt == IF inference_enabled /\ git_ctx.present
                                THEN infer_posted_at("external_id", git_ctx).result
                                ELSE NoDate
             IN  IF inferred_dt # NoDate THEN inferred_dt ELSE undated_posted_at(now)

(***************************************************************************)
(* Date parser runs: parse_curated_date is called once on a text with a    *)
(* given `now` (tests/test_date_parse.py).                                 *)
(***************************************************************************)
Clock(year, month, day, hour) == [year |-> year, month |-> month, day |-> day, hour |-> hour]

DpNows == {
    Clock(2025, 9, 18, 15), Clock(2024, 1, 15, 0), Clock(2024, 1, 30, 23),
    Clock(2025, 12, 31, 23), Clock(2025, 1, 1, 0), Clock(2023, 2, 1, 8),
    Clock(2024, 2, 29, 12) }

DpMonthWords == {
    "Jan", "Feb", "Mar", "Apr", "May", "Jun", "Jul", "Aug", "Sep", "Sept", "September",
    "Oct", "Nov", "DEC", "Foo" }

DpDayWords == {"0", "1", "09", "17", "28", "29", "30", "31", "32"}

DpTexts ==
    {m \o " " \o d : m \in DpMonthWords, d \in DpDayWords}
    \cup {None, "", "  ", "n/a", "Sep", "Feb. 12", " Sep  17 ", "2025-09-14", "2025-2-30",
          "0000-01-01", "2025-13-01", "3 days ago", "1 Day Ago", "0days ago", "1d", "12h",
          "30H", "2w", "5m", "123 45"}

DateParseInit ==
    /\ dt_pc = "start"
    /\ dt_text \in DpTexts
    /\ dt_now \in DpNows
    /\ dt_flags = <<>> /\ dt_ctx = <<>> /\ dt_calls = <<>>
    /\ dt_result = NoDate /\ dt_payload = <<>>
    /\ ddIdle /\ clIdle /\ upIdle /\ plIdle /\ svIdle

\* parse_curated_date(text, now=now)
Parse ==
    /\ dt_pc = "start"
    /\ dt_pc' = "done"
    /\ dt_result' = parse_curated_date(dt_text, dt_now)
    /\ UNCHANGED <<dt_text, dt_now, dt_flags, dt_ctx, dt_calls, dt_payload>>
    /\ UNCHANGED <<ddVars, clVars, upVars, plVars, svVars>>

DateParseNext == Parse

SpecDateParse == DateParseInit /\ [][DateParseNext]_vars

\* the text, stripped, is a month word and a day number
IsMonthDay(text) == Truthy(text) /\ Match(MONTH_DAY, strip(text))

\* the month word of such a text (its first three letters, lower-cased) and
\* its day number
MonthWordOf(text) ==
    LET raw == strip(text) IN Prefix(lower(SubSeq(raw, 1, SpanEnd(raw, 1, WordSet))), 3)
DayOf(text) ==
    LET raw == strip(text) IN
    ToInt(SubSeq(raw, SpanEnd(raw, SpanEnd(raw, 1, WordSet) + 1, SpaceSet) + 1, Len(raw)))

\* the text names a month and a day of that month of the calendar (February
\* has 29)
IsCalendarMonthDay(text) ==
    /\ IsMonthDay(text)
    /\ MonthWordOf(text) \in DOMAIN MONTHS
    /\ DayOf(text) >= 1
    /\ DayOf(text) <= DaysInMonth(2024, MONTHS[MonthWordOf(text)])

\* the year the 30-day rule picks for the month and day of the text: the
\* year of `now`, or the year before when that month/day of the year of
\* `now` is more than 30 days after `now`
RuleYear(text, now) ==
    IF DateTime(now.year, MONTHS[MonthWordOf(text)], DayOf(text), 0) - Hours(now) > 30 * 24
    THEN now.year - 1 ELSE now.year

GetterOutcomes == {
    ReturnsNone, Raises,
    Returns(DateTime(2024, 9, 1, 0), TRUE), Returns(DateTime(2024, 8, 20, 0), TRUE),
    Returns(DateTime(2024, 7, 15, 0), FALSE) }

InferContexts ==
    {NoCtx} \cup {GitContext(merge, add, latest) :
                     merge \in GetterOutcomes, add \in GetterOutcomes,
                     latest \in GetterOutcomes}

InferInit ==
    /\ dt_pc = "start"
    /\ dt_ctx \in InferContexts
    /\ dt_text = None /\ dt_now = 0 /\ dt_flags = <<>>
    /\ dt_calls = <<>> /\ dt_result = NoDate /\ dt_payload = <<>>
    /\ ddIdle /\ clIdle /\ upIdle /\ plIdle /\ svIdle

\* infer_posted_at(job_key, ctx)
Infer ==
    /\ dt_pc = "start"
    /\ dt_pc' = "done"
    /\ LET ret == infer_posted_at("job", dt_ctx) IN
        /\ dt_result' = ret.result
        /\ dt_calls' = ret.calls
    /\ UNCHANGED <<dt_text, dt_now, dt_flags, dt_ctx, dt_payload>>
    /\ UNCHANGED <<ddVars, clVars, upVars, plVars, svVars>>

InferNext == Infer

SpecInfer == InferInit /\ [][InferNext]_vars

\* the source gives a date: its getter returns a datetime (a getter that
\* raises counts as null)
GivesDate(ctx, source) == ctx[source].kind = "datetime"

\* C19: with a git context, the result is the date of the first of
\* merge-event, first-appearance and latest-touch that gives one (a getter
\* that raises counts as null); the getters called are exactly that source
\* and the ones before it, in order, so a later source is consulted only
\* when all earlier ones gave null; the result is null exactly when all
\* three give null; the result carries no tzinfo and has the wall-clock time
\* the source returned.
C19_FirstSourceWins ==
    (dt_pc = "done" /\ dt_ctx.present) =>
        LET order == <<"get_pr_merge_date", "get_commit_add_date", "get_latest_touch_date">>
            dated == {k \in 1..3 : GivesDate(dt_ctx, order[k])}
        IN  /\ (dt_result = NoDate) <=> (dated = {})
            /\ dated = {} => dt_calls = order
            /\ dated # {} =>
                   LET first == CHOOSE k \in dated : \A m \in dated : k <= m IN
                   /\ dt_calls = SubSeq(order, 1, first)
                   /\ dt_result[1].wall = dt_ctx[order[first]].wall
                   /\ ~dt_result[1].aware

\* The merge getter raised, the commit-add getter returned a timezone-aware
\* datetime and the latest-touch getter, which also has a date, was not
\* called; the result is the commit-add date without tzinfo.
C19_Witness ==
    /\ dt_pc = "done"
    /\ dt_ctx.present
    /\ dt_ctx.get_pr_merge_date = Raises
    /\ dt_ctx.get_commit_add_date = Returns(DateTime(2024, 8, 20, 0), TRUE)
    /\ dt_ctx.get_latest_touch_date.kind = "datetime"
    /\ dt_calls = <<"get_pr_merge_date", "get_commit_add_date">>
    /\ dt_result = <<[wall |-> DateTime(2024, 8, 20, 0), aware |-> FALSE]>>

(***************************************************************************)
(* Curated rows: _process_row is run once on a parsed table row, with the  *)
(* scrape and inference switches, a git context and the current time       *)
(* (tests/test_github_curated_scrape.py).                                  *)
(***************************************************************************)
ParsedRow(date, age) == [date |-> date, age |-> age, posted_at |-> ""]

\* cell texts that carry no date
UndatedCells == {"", "n/a", "soon", "**TBD**"}

RowDateCells == UndatedCells \cup {"2025-09-15", "**Sep 17**", "[Sep 12](https://x.y/z)"}

RowAgeCells == {"", "soon", "3d"}

RowContexts == {
    NoCtx,
    GitContext(ReturnsNone, ReturnsNone, ReturnsNone),
    GitContext(Raises, ReturnsNone, Raises),
    GitContext(Raises, Returns(DateTime(2025, 8, 20, 0), TRUE), ReturnsNone) }

CuratedInit ==
    /\ dt_pc = "start"
    /\ dt_text \in {ParsedRow(date, age) : date \in RowDateCells, age \in RowAgeCells}
    /\ dt_flags \in [scrape : BOOLEAN, inference : BOOLEAN]
    /\ dt_ctx \in RowContexts
    /\ dt_now \in {Clock(2025, 9, 30, 0), Clock(2025, 9, 30, 17)}
    /\ dt_calls = <<>> /\ dt_result = NoDate /\ dt_payload = <<>>
    /\ ddIdle /\ clIdle /\ upIdle /\ plIdle /\ svIdle

\* _process_row, lines 622-648: dt_result is what the scrape parsed,
\* dt_payload the record appended for the row
ProcessRow ==
    /\ dt_pc = "start"
    /\ dt_pc' = "done"
    /\ dt_result' = IF dt_flags.scrape
                    THEN scrape_date(date_candidates(dt_text), 1, dt_now)
                    ELSE NoDate
    /\ dt_payload' = [posted_at |-> row_posted_at(dt_text, dt_flags.scrape,
                                                  dt_flags.inference, dt_ctx, dt_now)]
    /\ UNCHANGED <<dt_text, dt_now, dt_flags, dt_ctx, dt_calls>>
    /\ UNCHANGED <<ddVars, clVars, upVars, plVars, svVars>>

CuratedNext == ProcessRow

SpecCurated == CuratedInit /\ [][CuratedNext]_vars

\* no date text: every date cell of the row is absent or carries no date
NoDateText == dt_text.date \in UndatedCells /\ dt_text.age \in UndatedCells

\* no inferred date: inference is off, or there is no git context, or no
\* source of the context gives a date
NoInferredDate ==
    \/ ~dt_flags.inference
    \/ ~dt_ctx.present
    \/ \A source \in {"get_pr_merge_date", "get_commit_add_date", "get_latest_touch_date"} :
           dt_ctx[source].kind # "datetime"

C18_EmptyDateCellGetsToday ==
    (/\ dt_pc = "done"
     /\ dt_flags.scrape /\ ~dt_flags.inference
     /\ dt_text.date = "" /\ dt_text.age = "") =>
        dt_payload.posted_at = <<[wall |-> Midnight(Hours(dt_now)), aware |-> FALSE]>>

(***************************************************************************)
(* Level inference (radar/core/normalize.py) and the record a provider     *)
(* builds for a posting (GreenhouseProvider.fetch, LeverProvider.fetch).   *)
(* Texts are ASCII: the en-dash variants of the year phrases are left out. *)
(***************************************************************************)
jr_title_phrases == {
    "junior", "new grad", "entry level", "entry-level", "associate",
    "engineer i", "software engineer i", "swe i", "se i", "sde i",
    "level 1", " l1", " l-1", " i)", " i " }

jr_desc_phrases == {
    "junior", "new grad", "recent grad", "entry level", "entry-level",
    "early career", "0-1 years", "0 to 1 years",
    "0-2 years", "0 to 2 years", "1-2 years", "1 to 2 years" }

senior_title_phrases ==
    {"senior", "sr.", "sr ", " staff", "principal", "lead", "architect", " manager"}

mid_title_phrases == {
    "engineer ii", "software engineer ii", "swe ii", "se ii", "sde ii",
    "level 2", " l2", " l-2", " ii)", " ii " }

\* (title or "").lower()
lower_or_empty(text) == IF Truthy(text) THEN lower(text) ELSE ""

infer_level(title, description_html) ==
    LET t == lower_or_empty(title)
        desc == lower_or_empty(description_html)
    IN  IF ContainsAny(t, jr_title_phrases) THEN "junior"
        ELSE IF ContainsAny(desc, jr_desc_phrases) THEN "junior"
        ELSE IF ContainsAny(t, senior_title_phrases) THEN "senior"
        ELSE IF ContainsAny(t, mid_title_phrases)
             THEN IF ContainsAny(desc, jr_desc_phrases) THEN "junior" ELSE "mid"
        ELSE None

\* (mutation: the provider passes the snippet to infer_level)
provider_level_WithSnippet(title, description_snippet) == infer_level(title, description_snippet)

\* level=infer_level(title) in the NormalizedJob the provider builds
provider_level(title, description_snippet) == infer_level(title, None)

ProviderJob(title, description_snippet) ==
    [title |-> title, company |-> "Acme", url |-> "u/1", source |-> "greenhouse",
     location |-> None, posted_at |-> NoDate,
     description_snippet |-> description_snippet,
     level |-> provider_level(title, description_snippet)]

PostingTitles == {
    "Software Engineer", "Engineer", "Junior Developer", "Associate Engineer",
    "Software Engineer I", "Software Engineer II", "Senior Software Engineer",
    "Sr. Engineer", "Staff Engineer", "Engineering Manager", "Tech Lead",
    "Backend Engineer (L2)", "Data Analyst" }

PostingSnippets == {
    None,
    "Build services with Python.",
    "We welcome new grad applicants.",
    "Open to recent graduates.",
    "An early career role.",
    "0-2 years of experience.",
    "5+ years of experience required.",
    "Junior engineers are mentored here.",
    "Entry-level position." }

NormalizeInit ==
    /\ nz_pc = "start"
    /\ nz_posting \in [title : PostingTitles, snippet : PostingSnippets]
    /\ nz_job = <<>>
    /\ efIdle /\ apIdle
    /\ ddIdle /\ clIdle /\ upIdle /\ plIdle /\ dtIdle

\* one turn of the provider's loop over the postings: the record appended
Normalize ==
    /\ nz_pc = "start"
    /\ nz_pc' = "done"
    /\ nz_job' = ProviderJob(nz_posting.title, nz_posting.snippet)
    /\ UNCHANGED <<nz_posting, efVars, apVars>>
    /\ UNCHANGED <<ddVars, clVars, upVars, plVars, dtVars>>

NormalizeNext == Normalize

SpecNormalize == NormalizeInit /\ [][NormalizeNext]_vars

\* C21: every record a provider hands over has level equal to infer_level of
\* its own title and its description snippet; a record with a title without
\* level marker and a snippet with an explicit junior phrase has level
\* junior.
C21_LevelFromTitleAndSnippet ==
    nz_pc = "done" =>
        nz_job.level = infer_level(nz_job.title, nz_job.description_snippet)

(***************************************************************************)
(* Upsert identity (C22), over the persistence runs.                       *)
(***************************************************************************)
Pair(row) == <<row.provider, row.external_id>>

UniquePairs(rows) ==
    \A i, j \in 1..Len(rows) : Pair(rows[i]) = Pair(rows[j]) => i = j

HasPair(rows, provider, ext) ==
    \E i \in 1..Len(rows) : Pair(rows[i]) = <<provider, ext>>

\* the call names, as its legacy_external_id, the external_id of a stored row
LegacyIdStored(rows, d) ==
    /\ Truthy(d.legacy_external_id)
    /\ \E i \in 1..Len(rows) : rows[i].external_id = d.legacy_external_id

\* the call's pair is stored: the call updates that row and adds none
RepeatUpdates(rows, call, after) ==
    (/\ Truthy(call.data.external_id) /\ Truthy(call.data.provider)
     /\ HasPair(rows, call.data.provider, call.data.external_id)) =>
        /\ call.outcome = "update"
        /\ Len(after) = Len(rows)
        /\ Pair(rows[call.row]) = <<call.data.provider, call.data.external_id>>
        /\ Pair(after[call.row]) = <<call.data.provider, call.data.external_id>>

\* the call's external_id is stored under other providers only: the call adds
\* a row for its own pair and leaves the stored rows as they are
OtherProviderInserts(rows, call, after) ==
    (/\ Truthy(call.data.external_id) /\ Truthy(call.data.provider)
     /\ ~HasPair(rows, call.data.provider, call.data.external_id)
     /\ \E i \in 1..Len(rows) : rows[i].external_id = call.data.external_id) =>
        /\ call.outcome = "insert"
        /\ Len(after) = Len(rows) + 1
        /\ SubSeq(after, 1, Len(rows)) = rows
        /\ Pair(after[Len(after)]) = <<call.data.provider, call.data.external_id>>

\* a call without external_id raises and changes no row
MissingIdRaises(rows, call, after) ==
    ~Truthy(call.data.external_id) => (call.outcome = "raise" /\ after = rows)

ENTRY_EXCLUSION_TITLE ==
    Word(Alt(<<Lit("senior"), Cat(<<Lit("sr"), Opt(Lit("."))>>), Lit("staff"),
               Lit("principal"), Lit("lead"), Lit("manager"), Lit("director"),
               Lit("head")>>))

ENTRY_INCLUSION_TITLE ==
    Word(Alt(<<Lit("intern"), Cat(<<Lit("new"), Ws0, Lit("grad")>>), Lit("junior"),
               Lit("entry"), Lit("associate")>>))

\* what follows the (\d+) group of PLUS_YEARS_PATTERN: \s*\+\s*(?:years?|yrs?)\b
PLUS_YEARS_TAIL ==
    Cat(<<Ws0, Lit("+"), Ws0,
          Alt(<<Cat(<<Lit("year"), Opt(Lit("s"))>>), Cat(<<Lit("yr"), Opt(Lit("s"))>>)>>),
          Bnd>>)

\* int(match.group(1)) for every match of PLUS_YEARS_PATTERN.finditer(text):
\* a match starts at a word boundary before a digit, its group is the whole
\* run of digits there
plus_years(text) ==
    LET t == lower(text) IN
    {ToInt(SubSeq(t, i, SpanEnd(t, i, DigitSet))) :
        i \in {k \in 1..Len(t) :
                  /\ IsDigit(t, k)
                  /\ ~IsWordCh(t, k - 1)
                  /\ Ends(PLUS_YEARS_TAIL, t, SpanEnd(t, k, DigitSet) + 1) # {}}}

\* the smallest `N+ years` that excludes (line 68)
ENTRY_MIN_YEARS == 3

\* _extract_text(value) for a text or None
extract_text(value) == OrEmpty(value)

\* (mutation: a junior inclusion term in the title outweighs an exclusion term)
title_excluded_UnlessJunior(title_text) ==
    SearchI(ENTRY_EXCLUSION_TITLE, title_text) /\ ~SearchI(ENTRY_INCLUSION_TITLE, title_text)

\* line 59: ENTRY_EXCLUSION_TITLE.search(title_text)
title_excluded(title_text) == SearchI(ENTRY_EXCLUSION_TITLE, title_text)

\* filter_entry_level(job) for a job dict: <<decision, reason>>
filter_entry_level(job) ==
    LET title_text == strip(OrEmpty(job.title))
        desc_text  == IF extract_text(job.description) # ""
                      THEN extract_text(job.description)
                      ELSE extract_text(job.description_snippet)
    IN  IF title_text = "" THEN <<"keep", "no-title">>
        ELSE IF title_excluded(title_text) THEN <<"exclude", "title-senior-term">>
        ELSE IF desc_text # "" /\ \E years \in plus_years(desc_text) : years >= ENTRY_MIN_YEARS
             THEN <<"exclude", "description-3plus-years">>
        ELSE IF SearchI(ENTRY_INCLUSION_TITLE, title_text) THEN <<"keep", "title-junior-term">>
        ELSE <<"keep", "default">>

(***************************************************************************)
(* Entry filter runs: filter_entry_level is called once on a job dict      *)
(* (tests/test_entry_filter.py).                                           *)
(***************************************************************************)
EntryTitles == {
    None, "", "  ", "Senior Software Engineer", "Sr. Engineer", "Engineer, Sr",
    "Staff Engineer", "Principal Engineer", "Lead Intern", "Leadership Intern",
    "Engineering Manager", "  Director  ", "Head of Data", "Headcount Analyst",
    "Software Engineer", "Software Engineer (L2)", "Associate Software Engineer",
    "New Grad Software Engineer", "Junior Developer" }

EntryDescriptions == {
    None, "",
    "We need builders with 3+ years of experience.",
    "Ideal candidate has 2+ years experience.",
    "10+ yrs in industry",
    "3 + Years",
    "0+ years welcome",
    "2+ years, or 5+ years for the senior track",
    "3 years of experience",
    "Great for new grads" }

EntrySnippets == {None, "5+ years required", "1+ year"}

EntryInit ==
    /\ ef_pc = "start"
    /\ ef_job \in [title : EntryTitles, description : EntryDescriptions,
                   description_snippet : EntrySnippets]
    /\ ef_decision = <<>>
    /\ nzIdle /\ apIdle
    /\ ddIdle /\ clIdle /\ upIdle /\ plIdle /\ dtIdle

FilterEntry ==
    /\ ef_pc = "start"
    /\ ef_pc' = "done"
    /\ ef_decision' = filter_entry_level(ef_job)
    /\ UNCHANGED <<ef_job, nzVars, apVars>>
    /\ UNCHANGED <<ddVars, clVars, upVars, plVars, dtVars>>

EntryNext == FilterEntry

SpecEntry == EntryInit /\ [][EntryNext]_vars

\* the maximal runs of word characters of a text
WordsOf(text) ==
    {SubSeq(text, i, SpanEnd(text, i, WordSet)) :
        i \in {k \in 1..Len(text) : IsWordCh(text, k) /\ ~IsWordCh(text, k - 1)}}

SeniorTerms ==
    {"senior", "sr", "staff", "principal", "lead", "manager", "director", "head"}

JuniorTerms == {"intern", "junior", "entry", "associate", "grad"}

\* the title contains a senior exclusion term, as a word
HasSeniorTerm(job) == WordsOf(lower(OrEmpty(job.title))) \cap SeniorTerms # {}

\* the description (the snippet when there is no description) has an
\* `N+ years` phrase with N >= 3
HasThreePlusYears(job) ==
    \E years \in plus_years(IF Truthy(job.description) THEN job.description
                            ELSE OrEmpty(job.description_snippet)) : years >= 3

\* C23 (as stated): the decision is exclude exactly when the title is
\* non-empty and either the title contains a senior exclusion term or the
\* description has an `N+ years` phrase with N >= 3; in every other case it
\* is keep.
C23_ExcludeIffSeniorOrYears ==
    ef_pc = "done" =>
        /\ ef_decision[1] \in {"keep", "exclude"}
        /\ (ef_decision[1] = "exclude") <=>
               (Truthy(ef_job.title) /\ (HasSeniorTerm(ef_job) \/ HasThreePlusYears(ef_job)))

\* C23 (amended): the same with "non-empty" read after stripping white
\* space: a title of white space only is kept whatever the description says.
\* A title exclusion term wins over a junior inclusion term in the same
\* title, and `N+ years` with N <= 2 does not exclude.
C23_ExcludeIffSeniorOrYearsStripped ==
    ef_pc = "done" =>
        /\ ef_decision[1] \in {"keep", "exclude"}
        /\ (ef_decision[1] = "exclude") <=>
               (/\ strip(OrEmpty(ef_job.title)) # ""
                /\ (HasSeniorTerm(ef_job) \/ HasThreePlusYears(ef_job)))
        /\ (HasSeniorTerm(ef_job) /\ WordsOf(lower(ef_job.title)) \cap JuniorTerms # {}) =>
               ef_decision[1] = "exclude"

\* "Lead Intern" with a description asking for 2+ years: excluded for the
\* title term.
C23_Witness ==
    /\ ef_pc = "done"
    /\ ef_job.title = "Lead Intern"
    /\ ef_job.description = "Ideal candidate has 2+ years experience."
    /\ ef_decision = <<"exclude", "title-senior-term">>

(***************************************************************************)
(* radar/api/main.py: GET /jobs.  The jobs table is a sequence of rows in  *)
(* id order; a query is the sequence of the rows it selects, in its order. *)
(* Every row belongs to a visible provider.                                *)
(***************************************************************************)
\* title_exclusion_terms()
title_exclusion_terms ==
    <<"senior", "sr", "staff", "principal", "lead", "manager", "director", "head">>

\* text LIKE '%a%b%'
Like2(text, a, b) ==
    \E i \in 1..(Len(text) - Len(a) + 1) :
        /\ SubSeq(text, i, i + Len(a) - 1) = a
        /\ Contains(SubSeq(text, i + Len(a), Len(text)), b)

\* the digits of a number below 100
Str(n) == IF n < 10 THEN Ch(DigitChars, n + 1)
          ELSE Ch(DigitChars, (n \div 10) + 1) \o Ch(DigitChars, (n % 10) + 1)

\* the years description_exclusion_patterns() ranges over
EXCLUDED_YEARS == 3..15

\* some pattern of description_exclusion_patterns() matches
description_excluded(desc) ==
    Contains(desc, "+") /\ \E years \in EXCLUDED_YEARS :
        \/ Like2(desc, Str(years) \o "+", "year")
        \/ Like2(desc, Str(years) \o "+", "yrs")
        \/ Like2(desc, Str(years) \o " +", "year")
        \/ Like2(desc, Str(years) \o " +", "yrs")

\* _apply_entry_sql_filters(query)
apply_entry_sql_filters(query) ==
    SelectSeq(query, LAMBDA row :
        LET title_lower == lower(row.title) IN
        /\ \A k \in 1..Len(title_exclusion_terms) :
               ~Contains(title_lower, title_exclusion_terms[k])
        /\ ~description_excluded(lower(OrEmpty(row.description))))

\* row a comes before row b under the ordering
Before(a, b, order) ==
    CASE order = "id_asc" -> a.id < b.id
      [] order = "id_desc" -> a.id > b.id
      [] order = "posted_at_desc" ->
            IF a.posted_at = NoDate /\ b.posted_at = NoDate THEN a.id > b.id
            ELSE IF a.posted_at = NoDate THEN FALSE
            ELSE IF b.posted_at = NoDate THEN TRUE
            ELSE \/ a.posted_at[1] > b.posted_at[1]
                 \/ (a.posted_at[1] = b.posted_at[1] /\ a.id > b.id)
      [] order = "posted_at_asc" ->
            IF a.posted_at = NoDate /\ b.posted_at = NoDate THEN a.id < b.id
            ELSE IF a.posted_at = NoDate THEN TRUE
            ELSE IF b.posted_at = NoDate THEN FALSE
            ELSE \/ a.posted_at[1] < b.posted_at[1]
                 \/ (a.posted_at[1] = b.posted_at[1] /\ a.id < b.id)

\* query.order_by(...): the ordering is total (ids are unique), so a row's
\* place is one more than the number of rows that come before it
order_by(rows, order) ==
    LET places == {<<1 + Cardinality({k \in 1..Len(rows) : Before(rows[k], rows[i], order)}), i>> :
                      i \in 1..Len(rows)}
    IN  [p \in 1..Len(rows) |-> rows[(CHOOSE t \in places : t[1] = p)[2]]]

\* lines 130-175: the filtered, ordered query of a request (the filters on
\* level, remote, provider, company, q and skills are not requested)
jobs_query(rows, req, now) ==
    LET dated == IF req.days > 0
                 THEN SelectSeq(rows, LAMBDA row :
                          row.posted_at # NoDate /\ row.posted_at[1] >= now - 24 * req.days)
                 ELSE rows
    IN  order_by(dated, req.order)

\* query.offset(start).limit(n).all()
offset_limit(query, start, n) ==
    SubSeq(query, start + 1, IF start + n < Len(query) THEN start + n ELSE Len(query))

\* the floor of chunk_size (line 217)
MIN_CHUNK_SIZE == 100

chunk_size_for(limit) == IF limit * 3 > MIN_CHUNK_SIZE THEN limit * 3 ELSE MIN_CHUNK_SIZE

\* lines 229-239: the body of the loop for one row, on <<kept_rows, kept_total>>
scan_row(row, offset, limit, kept) ==
    LET decision == filter_entry_level([title |-> row.title,
                                        description |-> row.description,
                                        description_snippet |-> row.description])
    IN  IF decision[1] = "exclude" THEN kept
        ELSE <<IF kept[2] + 1 > offset /\ Len(kept[1]) < limit
               THEN Append(kept[1], row) ELSE kept[1],
               kept[2] + 1>>

\* the rows chunk[lo..hi] in order: the first half, then the second half on
\* what the first half left; kept_total never decreases, and reading it
\* here has the first half computed before the second is entered
RECURSIVE scan_rows(_, _, _, _, _, _)
scan_rows(chunk, lo, hi, offset, limit, kept) ==
    IF lo > hi THEN kept
    ELSE IF lo = hi THEN scan_row(chunk[lo], offset, limit, kept)
    ELSE LET mid == (lo + hi) \div 2
             first == scan_rows(chunk, lo, mid, offset, limit, kept)
         IN  IF first[2] >= kept[2]
             THEN scan_rows(chunk, mid + 1, hi, offset, limit, first)
             ELSE kept

\* lines 228-239: the loop over one chunk from row n on; <<kept_rows, kept_total>>
scan_chunk(chunk, n, offset, limit, kept_rows, kept_total) ==
    scan_rows(chunk, n, Len(chunk), offset, limit, <<kept_rows, kept_total>>)

\* JobsResponse(items=items, total=total, limit=limit, offset=offset)
JobsResponse(rows, total, req) ==
    [items |-> rows, total |-> total, limit |-> req.limit, offset |-> req.offset]

(***************************************************************************)
(* API runs: one GET /jobs request on a stored table.                      *)
(***************************************************************************)
\* datetime.utcnow() of the request
ApiNow == DateTime(2025, 9, 18, 15)

\* row i of a table: its title, description and date follow from i
ApiRow(i, kind) ==
    [id |-> i,
     title |-> IF kind = "mixed" /\ i % 5 = 0 THEN "Sr Engineer" ELSE "Engineer",
     description |-> IF kind = "mixed" /\ i % 7 = 0 THEN "20+ yrs"
                     ELSE IF i % 2 = 0 THEN None ELSE "new grads",
     posted_at |-> IF i % 4 = 0 THEN NoDate ELSE At(ApiNow - 24 * (i % 60))]

ApiTable(n, kind) == [i \in 1..n |-> ApiRow(i, kind)]

MaxApiRows == 131

ApiTableSizes == {0, 2, 9, MIN_CHUNK_SIZE, MIN_CHUNK_SIZE + 1, MaxApiRows}

\* every request with the flag off; with the flag on, the paging parameters
ApiRequests ==
    [limit : {1, 40}, offset : {0, 3, 100}, days : {0, 30},
     order : {"posted_at_desc", "id_asc"}, include_undated : BOOLEAN,
     entry_filter_enabled : {FALSE}]
    \cup
    [limit : {1, 40}, offset : {0, 100}, days : {0},
     order : {"posted_at_desc"}, include_undated : {FALSE},
     entry_filter_enabled : {TRUE}]

ApiInit ==
    /\ api_pc = "start"
    /\ api_rows \in {ApiTable(n, kind) : n \in ApiTableSizes, kind \in {"plain", "mixed"}}
    /\ api_req \in ApiRequests
    /\ api_start = 0 /\ api_kept_rows = <<>> /\ api_kept_total = 0 /\ api_resp = <<>>
    /\ nzIdle /\ efIdle
    /\ ddIdle /\ clIdle /\ upIdle /\ plIdle /\ dtIdle

\* get_jobs with the entry-exclusion flag off (lines 183-200)
GetJobsPlain ==
    /\ api_pc = "start"
    /\ ~api_req.entry_filter_enabled
    /\ LET query == jobs_query(api_rows, api_req, ApiNow) IN
       api_resp' = JobsResponse(offset_limit(query, api_req.offset, api_req.limit),
                                Len(query), api_req)
    /\ api_pc' = "done"
    /\ UNCHANGED <<api_rows, api_req, api_start, api_kept_rows, api_kept_total>>
    /\ UNCHANGED <<nzVars, efVars, ddVars, clVars, upVars, plVars, dtVars>>

\* get_jobs with the flag on, up to the loop of _fetch_with_entry_filter
GetJobsEntry ==
    /\ api_pc = "start"
    /\ api_req.entry_filter_enabled
    /\ api_pc' = "scan"
    /\ api_start' = 0 /\ api_kept_rows' = <<>> /\ api_kept_total' = 0
    /\ UNCHANGED <<api_rows, api_req, api_resp>>
    /\ UNCHANGED <<nzVars, efVars, ddVars, clVars, upVars, plVars, dtVars>>

\* one turn of the `while True` loop (lines 223-245); on a break the
\* function returns and get_jobs builds the response
ScanChunk ==
    /\ api_pc = "scan"
    /\ LET query == apply_entry_sql_filters(jobs_query(api_rows, api_req, ApiNow))
           chunk_size == chunk_size_for(api_req.limit)
           chunk == offset_limit(query, api_start, chunk_size)
           res == scan_chunk(chunk, 1, api_req.offset, api_req.limit,
                             api_kept_rows, api_kept_total)
           stop == \/ chunk = <<>>
                   \/ (res[2] >= api_req.offset + api_req.limit
                          /\ Len(res[1]) >= api_req.limit)
                   \/ Len(chunk) < chunk_size
       IN  /\ api_kept_rows' = res[1]
           /\ api_kept_total' = res[2]
           /\ IF stop
              THEN /\ api_pc' = "done"
                   /\ api_resp' = JobsResponse(res[1], res[2], api_req)
                   /\ UNCHANGED api_start
              ELSE /\ api_pc' = "scan"
                   /\ api_start' = api_start + chunk_size
                   /\ UNCHANGED api_resp
    /\ UNCHANGED <<api_rows, api_req>>
    /\ UNCHANGED <<nzVars, efVars, ddVars, clVars, upVars, plVars, dtVars>>

ApiNext == GetJobsPlain \/ GetJobsEntry \/ ScanChunk

SpecApi == ApiInit /\ [][ApiNext]_vars

\* the rows of the request's whole filtered query that filter_entry_level
\* keeps, in query order
KeptOfQuery ==
    SelectSeq(apply_entry_sql_filters(jobs_query(api_rows, api_req, ApiNow)),
              LAMBDA row : filter_entry_level([title |-> row.title,
                                               description |-> row.description,
                                               description_snippet |-> row.description])[1]
                           = "keep")

\* C24: with the entry-exclusion flag on, the response's total is the number
\* of rows of the whole filtered query that filter_entry_level keeps, and
\* its items are the kept rows at kept-positions offset+1 .. offset+limit in
\* query order.
C24_TotalCountsEveryKeptRow ==
    (api_pc = "done" /\ api_req.entry_filter_enabled) =>
        /\ api_resp.total = Len(KeptOfQuery)
        /\ api_resp.items = offset_limit(KeptOfQuery, api_req.offset, api_req.limit)

\* C25: without include_undated no job with a null posted_at is in the items
\* or counted in the total; with include_undated=true undated jobs are
\* included alongside dated ones.
C25_UndatedOnlyOnRequest ==
    (api_pc = "done" /\ ~api_req.entry_filter_enabled /\ api_req.days = 0) =>
        LET dated == SelectSeq(api_rows, LAMBDA row : row.posted_at # NoDate) IN
        IF api_req.include_undated
        THEN api_resp.total = Len(api_rows)
        ELSE /\ api_resp.total = Len(dated)
             /\ \A k \in 1..Len(api_resp.items) : api_resp.items[k].posted_at # NoDate

(***************************************************************************)
(* Cap accounting of the description top-up (C26), over the enrichment     *)
(* runs.  pass_log holds, for the pass, the records as they were when it   *)
(* selected and the plan it made.                                          *)
(***************************************************************************)
TopUpEntries == {k \in 1..Len(pass_log) : pass_log[k].pass = "top_up"}

\* the records of a provider that hold a snippet
Holding(jobs, pk) == {n \in 1..Len(jobs) : ProviderKey(jobs[n]) = pk /\ HasSnippet(jobs[n])}

\* max(cap - have, 0) for a provider at the start of the pass
Deficit(jobs, pk) ==
    LET d == cap_for_provider(env, pk) - Cardinality(Holding(jobs, pk))
    IN  IF d > 0 THEN d ELSE 0

\* the plan gives each provider at most its deficit, and only records that
\* hold no snippet; the futures are records of the plan
PlanWithinDeficit ==
    \A k \in TopUpEntries :
        LET e == pass_log[k] IN
        /\ \A pk \in {ProviderKey(e.jobs[n]) : n \in 1..Len(e.jobs)} :
               Cardinality({m \in 1..Len(e.plan) : ProviderKey(e.jobs[e.plan[m]]) = pk})
                   <= Deficit(e.jobs, pk)
        /\ \A m \in 1..Len(e.plan) : ~HasSnippet(e.jobs[e.plan[m]])
        /\ \A m1, m2 \in 1..Len(e.plan) : e.plan[m1] = e.plan[m2] => m1 = m2
        /\ pl_pc = "top_up" => futs \subseteq SeqToSet(e.plan)

\* a provider that started the pass at or below its cap holds at most `cap`
\* snippets during and after the pass
HoldingWithinCap ==
    \A k \in TopUpEntries :
        LET e == pass_log[k] IN
        \A pk \in {ProviderKey(e.jobs[n]) : n \in 1..Len(e.jobs)} \ {""} :
            Cardinality(Holding(e.jobs, pk)) <= cap_for_provider(env, pk) =>
                Cardinality(Holding(all_jobs, pk)) <= cap_for_provider(env, pk)

\* the step that makes the plan changes no record, and the steps of the pass
\* neither change the plan nor add a future
PlanBeforeDispatch ==
    /\ (pl_pc # "top_up" /\ pl_pc' = "top_up") =>
           (all_jobs' = all_jobs /\ pass_log'[Len(pass_log')].jobs = all_jobs)
    /\ (pl_pc = "top_up" /\ pl_pc' = "top_up") =>
           (pass_log' = pass_log /\ futs' \subseteq futs /\ futs' # futs)

\* C26: the fetch plan of the description top-up is fixed before any fetch is
\* dispatched or any record mutated; per provider at most max(cap - have, 0)
\* fetches are dispatched, `have` being the provider's records holding a
\* snippet when the pass starts; a provider that starts at or below its cap
\* ends with at most `cap` records holding a snippet.
C26_TopUpWithinCap ==
    /\ [](PlanWithinDeficit /\ HoldingWithinCap)
    /\ [][PlanBeforeDispatch]_vars

\* The pass is over; a provider had two candidates and a deficit of one, one
\* fetch was planned for it and its record now holds a snippet.
C26_Witness ==
    /\ pl_pc = "backfill"
    /\ \E k \in TopUpEntries :
        LET e == pass_log[k] IN
        /\ Len(e.plan) = 1
        /\ Deficit(e.jobs, ProviderKey(e.jobs[e.plan[1]])) = 1
        /\ Cardinality({n \in 1..Len(e.jobs) :
               /\ ProviderKey(e.jobs[n]) = ProviderKey(e.jobs[e.plan[1]])
               /\ TopUpCandidate(e.jobs[n], args, Now)}) = 2
        /\ HasSnippet(all_jobs[e.plan[1]])

(***************************************************************************)
(* Sequencing of the enrichment passes (C27), over the enrichment runs.    *)
(***************************************************************************)
PassOrder == <<"junior_top_up", "top_up", "backfill">>

\* the passes started so far are the first passes of the order; the running
\* futures belong to the plan of the pass started last; no plan names a
\* record twice
PassesInOrder ==
    /\ Len(pass_log) <= Len(PassOrder)
    /\ \A k \in 1..Len(pass_log) :
        /\ pass_log[k].pass = PassOrder[k]
        /\ \A m1, m2 \in 1..Len(pass_log[k].plan) :
               pass_log[k].plan[m1] = pass_log[k].plan[m2] => m1 = m2
    /\ futs # {} =>
        /\ pass_log # <<>>
        /\ pl_pc = pass_log[Len(pass_log)].pass
        /\ futs \subseteq SeqToSet(pass_log[Len(pass_log)].plan)

\* a pass starts only when no future is left, and it selects on the records
\* as the completed passes left them; a completion changes at most the one
\* record its future was submitted for, and that future is gone afterwards
PassDrainsFirst ==
    /\ Len(pass_log') > Len(pass_log) =>
        /\ futs = {}
        /\ all_jobs' = all_jobs
        /\ pass_log'[Len(pass_log')].jobs = all_jobs
    /\ all_jobs' # all_jobs =>
        \E n \in futs :
            /\ futs' = futs \ {n}
            /\ \A m \in 1..Len(all_jobs) : m # n => all_jobs'[m] = all_jobs[m]
            /\ Len(all_jobs') = Len(all_jobs)

\* C27: no fetch task of a later enrichment pass starts before every task of
\* the preceding pass has completed and its result has been applied; within
\* one pass each record is the target of at most one fetch task.
C27_PassesAreSequential ==
    /\ []PassesInOrder
    /\ [][PassDrainsFirst]_vars

\* The description top-up is running with a future outstanding, after a
\* junior top-up whose future completed and gave its record a snippet.
C27_Witness ==
    /\ pl_pc = "top_up"
    /\ futs # {}
    /\ Len(pass_log) = 2
    /\ pass_log[1].plan # <<>>
    /\ \E n \in SeqToSet(pass_log[1].plan) :
           ~HasSnippet(pass_log[1].jobs[n]) /\ HasSnippet(pass_log[2].jobs[n])

(***************************************************************************)
(* The junior-only gate on neutral titles (C28), over the gate runs.       *)
(***************************************************************************)
\* the title looks like engineering and holds none of the senior markers
TitlePasses(title) ==
    looks_like_engineering(title) /\ ~ContainsAny(lower(OrEmpty(title)), SeniorMarkers)

\* the record with another description snippet
WithSnippet(job, d) == [job EXCEPT !.description_snippet = d]

\* C28: with junior_only set, _matches_basic on a record is the test of its
\* title alone (looks like engineering, no senior marker): the same for relax
\* on and off and for every description snippet; and with no other gate
\* requested the records kept by the filter loop are the ones whose title
\* passes.
C28_JuniorOnlyGateIsTitleOnly ==
    (pl_pc # "enriched" /\ args.junior_only) =>
        \A n \in 1..Len(all_jobs) :
            /\ \A r \in BOOLEAN, d \in GateDescs :
                   matches_basic(WithSnippet(all_jobs[n], d), TRUE, r, FALSE)
                       = TitlePasses(all_jobs[n].title)
            /\ ~args.us_remote_only =>
                   (n \in BasicFiltered <=> TitlePasses(all_jobs[n].title))

\* The filter loop ran with junior_only set and relax off and kept a record
\* titled "Engineer", which the junior classifier does not call junior.
C28_Witness ==
    /\ pl_pc # "enriched"
    /\ args.junior_only /\ ~args.relax /\ ~args.us_remote_only
    /\ \E n \in BasicFiltered :
        /\ all_jobs[n].title = "Engineer"
        /\ all_jobs[n].description_snippet = "New grad role"
        /\ ~is_junior_title_or_desc(all_jobs[n].title, all_jobs[n].description_snippet, args.relax)
        /\ is_junior_title_or_desc(all_jobs[n].title, all_jobs[n].description_snippet, TRUE)

(***************************************************************************)
(* The dedupe key as a triple (C30), over the dedupe runs.                 *)
(***************************************************************************)
\* the three lowercased components the fingerprint is built from
KeyTriple(job) == <<lower(job.title), lower(job.company), lower(job.url)>>

\* C30 (as stated): deduplicate_jobs collapses two records only if their
\* lowercased titles, companies and URLs are all equal: every input record
\* has a record with its three lowercased components in the output, and the
\* output has one record per distinct triple of the input.
C30_CollapsedOnlyOnEqualComponents ==
    dd_pc = "done" =>
        /\ \A i \in 1..Len(dd_in) :
               \E k \in 1..Len(dd_out) : KeyTriple(dd_out[k]) = KeyTriple(dd_in[i])
        /\ Len(dd_out) = Cardinality({KeyTriple(dd_in[i]) : i \in 1..Len(dd_in)})

(***************************************************************************)
(* The order of the output list (C29), over the ranking runs.              *)
(***************************************************************************)
\* C29 (as stated): along the output list the attached ranks strictly
\* increase, so that no two output records carry the same rank, and the
\* attached skill_scores do not increase.
C29_OutputRanksStrictlyIncrease ==
    pl_pc = "output" =>
        /\ \A n \in 1..Len(payload) : payload[n].rank # NoRank
        /\ \A n \in 1..(Len(payload) - 1) :
            /\ payload[n].rank[1] < payload[n + 1].rank[1]
            /\ payload[n].skill_score >= payload[n + 1].skill_score

====
